---- MODULE Spec2Model ----
(***************************************************************************)
(* Model of the invitation renderer: make_invite.py (JSON-driven variant)   *)
(* and "make_invite copy.py" (environment-only variant, src/unnamed/        *)
(* part_000),                                                               *)
(* and of the mail senders sendmail_image.py and sendmail.py.               *)
(*                                                                          *)
(* A Python str is a sequence of one-character strings, so that strip,      *)
(* split, join and int() are modelled by what they do.  A Python Optional   *)
(* is a sequence of length <= 1: <<>> is None, <<v>> is the value v.        *)
(* A call that may raise returns a record [ok |-> BOOLEAN, val |-> ...].    *)
(***************************************************************************)
EXTENDS Integers, Sequences, FiniteSets, TLC

VARIABLES
    variant,   \* "json" (make_invite.py) or "env" (make_invite copy.py)
    argv,      \* sys.argv
    env,       \* the process environment after load_dotenv(): key -> str
    doc,       \* the invitation JSON file named by argv[1]
    files,     \* the file system: template image, font files, glyph support
    pc,        \* position of the run in main() / in the module-level script
    cfg,       \* the resolved configuration (the upper-case locals of main)
    content,   \* INTRO, TITLE, DETAILS, MESSAGE, SIGN, RSVP
    canvas,    \* img: <<>> before Image.open, then <<[w, h, resampled]>>
    fonts,     \* font_title, font_body, font_small, font_hook, font_rsvp
    ops,       \* the draw calls made on the canvas, in order
    trace,     \* the composition steps executed, in order
    calls,     \* the draw calls main made, with their arguments and results
    diag,      \* the diagnostics printed, in order
    status,    \* <<>> while running, <<n>> the exit status once ended
    out,       \* the output files written: path -> [w, h, ops]
    run,       \* 1 in the first run of the renderer, 2 in a run after it
    first,     \* <<>>, or <<what the first run did>> once a second one began
    mprog,     \* the mail sender started: "sendmail_image" or "sendmail"
    menv,      \* the mail sender's environment after load_dotenv()
    mfs,       \* its files: token.json, credentials.json, the images
    mpc,       \* position of the mail sender
    mq,        \* the sends still to make: <<[to, image_path, label], ...>>
    mcur,      \* <<>>, or <<the raw message send_raw was called with>>
    mlog,      \* what gmail_service and the send API did, in order
    mstatus    \* <<>> while the sender runs, <<n>> its exit status

vars == <<variant, argv, env, doc, files, pc, cfg, content, canvas, fonts,
          ops, trace, calls, diag, status, out, run, first,
          mprog, menv, mfs, mpc, mq, mcur, mlog, mstatus>>

inputs == <<variant, argv, env, doc, files>>

\* what a second run of the renderer keeps of the first
twice == <<run, first>>

\* the state of the mail senders
mailvars == <<mprog, menv, mfs, mpc, mq, mcur, mlog, mstatus>>

(***************************************************************************)
(* Bounds of the model.                                                     *)
(***************************************************************************)
\* longest raw value of a fuzzed integer setting
MaxRawLen == 2
\* longest fuzzed content field
MaxFieldLen == 2
\* most components of a fuzzed colour value
MaxParts == 4
\* largest fuzzed DPI value
MaxDpi == 4

(***************************************************************************)
(* Python str helpers.                                                      *)
(***************************************************************************)
NL == "\n"
SP == " "
TAB == "\t"
\* the characters str.strip() removes (those that occur in the model)
Whitespace == {SP, TAB, NL}
Digits == {"0", "1", "2", "3", "4", "5", "6", "7", "8", "9"}

DigitVal(c) ==
    CASE c = "0" -> 0 [] c = "1" -> 1 [] c = "2" -> 2 [] c = "3" -> 3
      [] c = "4" -> 4 [] c = "5" -> 5 [] c = "6" -> 6 [] c = "7" -> 7
      [] c = "8" -> 8 [] c = "9" -> 9

SetMin(S) == CHOOSE x \in S : \A y \in S : x <= y
SetMax(S) == CHOOSE x \in S : \A y \in S : x >= y

\* s.strip(chars)
StripChars(s, chars) ==
    LET keep == {i \in 1..Len(s) : s[i] \notin chars}
    IN  IF keep = {} THEN <<>> ELSE SubSeq(s, SetMin(keep), SetMax(keep))

\* s.strip()
Strip(s) == StripChars(s, Whitespace)

\* s.split(sep) for a one-character sep
RECURSIVE Split(_, _)
Split(s, sep) ==
    LET at == {i \in 1..Len(s) : s[i] = sep}
    IN  IF at = {} THEN <<s>>
        ELSE LET i == SetMin(at)
             IN  <<SubSeq(s, 1, i - 1)>> \o Split(SubSeq(s, i + 1, Len(s)), sep)

\* sep.join(parts)
RECURSIVE Join(_, _)
Join(parts, sep) ==
    IF parts = <<>> THEN <<>>
    ELSE IF Len(parts) = 1 THEN parts[1]
    ELSE parts[1] \o <<sep>> \o Join(Tail(parts), sep)

RECURSIVE DigitsVal(_, _)
DigitsVal(s, acc) ==
    IF s = <<>> THEN acc ELSE DigitsVal(Tail(s), 10 * acc + DigitVal(Head(s)))

\* int(s): surrounding whitespace is ignored, one optional sign, then at
\* least one digit; anything else raises ValueError.
ParseInt(s) ==
    LET t == Strip(s)
        signed == t # <<>> /\ t[1] \in {"-", "+"}
        body == IF signed THEN Tail(t) ELSE t
    IN  IF body # <<>> /\ \A i \in 1..Len(body) : body[i] \in Digits
        THEN [ok |-> TRUE,
              val |-> IF signed /\ t[1] = "-" THEN 0 - DigitsVal(body, 0)
                      ELSE DigitsVal(body, 0)]
        ELSE [ok |-> FALSE, val |-> 0]

Ok(v) == [ok |-> TRUE, val |-> v]
Raise == [ok |-> FALSE, val |-> 0]

(***************************************************************************)
(* Configuration helpers (make_invite.py 29-47).                            *)
(***************************************************************************)
\* os.getenv(key): None when the key is not set
Getenv(key) == IF key \in DOMAIN env THEN <<env[key]>> ELSE <<>>

\* env_int answering a value that is no integer with the default
env_int_default_on_error(key, default) ==
    LET v == Getenv(key)
    IN  IF v # <<>> /\ v[1] # <<>> /\ Strip(v[1]) # <<>> /\ ParseInt(v[1]).ok
        THEN ParseInt(v[1])
        ELSE Ok(default)


\* env_int(key, default)
env_int(key, default) ==
    LET v == Getenv(key)
    IN  IF v # <<>> /\ v[1] # <<>> /\ Strip(v[1]) # <<>>
        THEN ParseInt(v[1])
        ELSE Ok(default)

\* env_int_opt with a parsed 0 taken for absent ("int(v) or None")
env_int_opt_zero_absent(key) ==
    LET v == Getenv(key)
    IN  IF v = <<>> THEN Ok(<<>>)
        ELSE LET s == Strip(v[1])
             IN  IF s # <<>>
                 THEN LET n == ParseInt(s)
                      IN  IF ~n.ok THEN Raise
                          ELSE IF n.val = 0 THEN Ok(<<>>)
                          ELSE Ok(<<n.val>>)
                 ELSE Ok(<<>>)

\* env_int_opt(key): the value is an Optional int
env_int_opt(key) ==
    LET v == Getenv(key)
    IN  IF v = <<>> THEN Ok(<<>>)
        ELSE LET s == Strip(v[1])
             IN  IF s # <<>>
                 THEN LET n == ParseInt(s)
                      IN  IF n.ok THEN Ok(<<n.val>>) ELSE Raise
                 ELSE Ok(<<>>)

\* env_str(key, default)
env_str(key, default) ==
    LET v == Getenv(key) IN IF v = <<>> THEN default ELSE v[1]

\* the default of env_color
DefaultColorRaw == <<"1", "8", "0", ",", "1", "8", "0", ",", "1", "8", "0">>

\* env_color answering a malformed value with the default colour
env_color_default_on_error(key, default) ==
    LET raw == env_str(key, default)
        parts == [i \in 1..Len(Split(raw, ",")) |-> Strip(Split(raw, ",")[i])]
        first3 == SubSeq(parts, 1, IF Len(parts) < 3 THEN Len(parts) ELSE 3)
    IN  IF Len(first3) = 3 /\ \A i \in 1..3 : ParseInt(first3[i]).ok
        THEN Ok(<<ParseInt(first3[1]).val, ParseInt(first3[2]).val,
                  ParseInt(first3[3]).val, 255>>)
        ELSE Ok(<<180, 180, 180, 255>>)

\* env_color(key, default): r, g, b = map(int, parts[:3]) raises ValueError
\* when fewer than three parts are left or one of them is no integer
env_color(key, default) ==
    LET raw == env_str(key, default)
        parts == [i \in 1..Len(Split(raw, ",")) |-> Strip(Split(raw, ",")[i])]
        first3 == SubSeq(parts, 1, IF Len(parts) < 3 THEN Len(parts) ELSE 3)
    IN  IF Len(first3) = 3 /\ \A i \in 1..3 : ParseInt(first3[i]).ok
        THEN Ok(<<ParseInt(first3[1]).val, ParseInt(first3[2]).val,
                  ParseInt(first3[3]).val, 255>>)
        ELSE Raise

(***************************************************************************)
(* Fonts and text metrics.                                                  *)
(***************************************************************************)
\* the size of the font ImageFont.load_default() returns
DefaultFontSize == 10

BuiltinFont == [path |-> <<>>, size |-> DefaultFontSize, builtin |-> TRUE]

\* load_font without the fallback: the font is taken as loaded
load_font_no_fallback(path, size) ==
    [path |-> path, size |-> size, builtin |-> FALSE]


\* load_font(path, size): ImageFont.truetype raises for a path that is no
\* loadable font file and for a size below 1; every failure is caught and
\* answered with the built-in font.
load_font(path, size) ==
    IF path \in files.fontfiles /\ size >= 1
    THEN [path |-> path, size |-> size, builtin |-> FALSE]
    ELSE BuiltinFont

\* draw.textbbox((0, 0), line, font=font): the box of the inked pixels.
\* Each character advances by half the font size; a line of only low
\* letters ("a") is half the font size high, any other inked character
\* makes it three quarters high.
TextBBox(line, font) ==
    LET inked == {i \in 1..Len(line) : line[i] \notin Whitespace}
        tall == \E i \in inked : line[i] # "a"
    IN  [w |-> Len(line) * (font.size \div 2),
         h |-> IF inked = {} THEN 0
               ELSE IF tall THEN (3 * font.size) \div 4
               ELSE font.size \div 2]

LineOp(x1, y1, x2, y2, color, width) ==
    [op |-> "line", x1 |-> x1, y1 |-> y1, x2 |-> x2, y2 |-> y2,
     fill |-> color, width |-> width]

TextOp(x, y, text, font, fill) ==
    [op |-> "text", x |-> x, y |-> y, text |-> text, font |-> font,
     fill |-> fill]

(***************************************************************************)
(* ensure_a4 (make_invite.py 56-61).                                        *)
(***************************************************************************)
\* int(round(num / 100)) for the two-decimal factors 8.27 and 11.69: Python
\* rounds a tie to the even neighbour.
RoundHundredths(num) ==
    LET q == num \div 100
        r == num % 100
    IN  IF 2 * r > 100 \/ (2 * r = 100 /\ q % 2 = 1) THEN q + 1 ELSE q

TargetW(dpi) == RoundHundredths(827 * dpi)
TargetH(dpi) == RoundHundredths(1169 * dpi)

\* ensure_a4 comparing only the width of the image with the target
ensure_a4_width_only(img, dpi) ==
    IF img.w # TargetW(dpi)
    THEN IF TargetW(dpi) < 1 \/ TargetH(dpi) < 1 THEN Raise
         ELSE Ok([w |-> TargetW(dpi), h |-> TargetH(dpi),
                  resampled |-> img.resampled + 1])
    ELSE Ok(img)

\* ensure_a4(img, dpi): Image.resize raises ValueError for a target below
\* one pixel.  resampled counts the resize calls the image went through.
ensure_a4(img, dpi) ==
    IF <<img.w, img.h>> # <<TargetW(dpi), TargetH(dpi)>>
    THEN IF TargetW(dpi) < 1 \/ TargetH(dpi) < 1 THEN Raise
         ELSE Ok([w |-> TargetW(dpi), h |-> TargetH(dpi),
                  resampled |-> img.resampled + 1])
    ELSE Ok(img)

(***************************************************************************)
(* draw_centered_multiline (make_invite.py 63-82).                          *)
(***************************************************************************)
\* the loop with a blank line skipped before the cursor is advanced
RECURSIVE DrawLines_blank_no_advance(_, _, _, _, _, _)
DrawLines_blank_no_advance(lines, font, center_x, y, fill, line_spacing_px) ==
    IF lines = <<>> THEN [ops |-> <<>>, y |-> y]
    ELSE LET line == Head(lines)
         IN  IF Strip(line) = <<>>
             THEN DrawLines_blank_no_advance(Tail(lines), font, center_x, y,
                                             fill, line_spacing_px)
             ELSE LET bbox == TextBBox(line, font)
                      rest == DrawLines_blank_no_advance(
                                  Tail(lines), font, center_x,
                                  y + bbox.h + line_spacing_px,
                                  fill, line_spacing_px)
                  IN  [ops |-> <<TextOp(center_x - (bbox.w \div 2), y, line,
                                        font, fill)>> \o rest.ops,
                       y |-> rest.y]

\* the loop over text.split("\n"): the draw calls made and the final y
RECURSIVE DrawLines(_, _, _, _, _, _)
DrawLines(lines, font, center_x, y, fill, line_spacing_px) ==
    IF lines = <<>> THEN [ops |-> <<>>, y |-> y]
    ELSE LET line == Head(lines)
         IN  IF Strip(line) = <<>>
             THEN DrawLines(Tail(lines), font, center_x,
                            y + font.size + line_spacing_px,
                            fill, line_spacing_px)
             ELSE LET bbox == TextBBox(line, font)
                      rest == DrawLines(Tail(lines), font, center_x,
                                        y + bbox.h + line_spacing_px,
                                        fill, line_spacing_px)
                  IN  [ops |-> <<TextOp(center_x - (bbox.w \div 2), y, line,
                                        font, fill)>> \o rest.ops,
                       y |-> rest.y]

\* the loop without the skip of blank lines: every segment is drawn
RECURSIVE DrawLines_every_line(_, _, _, _, _, _)
DrawLines_every_line(lines, font, center_x, y, fill, line_spacing_px) ==
    IF lines = <<>> THEN [ops |-> <<>>, y |-> y]
    ELSE LET bbox == TextBBox(Head(lines), font)
             rest == DrawLines_every_line(Tail(lines), font, center_x,
                                          y + bbox.h + line_spacing_px,
                                          fill, line_spacing_px)
         IN  [ops |-> <<TextOp(center_x - (bbox.w \div 2), y, Head(lines),
                               font, fill)>> \o rest.ops,
              y |-> rest.y]

draw_centered_multiline_every_line(text, font, center_x, top_y, fill, line_spacing_px) ==
    DrawLines_every_line(Split(text, NL), font, center_x, top_y, fill,
                         line_spacing_px)


draw_centered_multiline(text, font, center_x, top_y, fill, line_spacing_px) ==
    DrawLines(Split(text, NL), font, center_x, top_y, fill, line_spacing_px)

(***************************************************************************)
(* draw_hook_divider and draw_divider_pair (make_invite.py 84-144).         *)
(***************************************************************************)
\* the default ornament U+2766 and the fallback bullet U+2022, each one
\* character
FloralHeart == <<"U+2766">>
Bullet == <<"U+2022">>

\* hook_font.getmask(hook_char): "ok" (a mask with pixels), "empty" (a
\* mask of size (0, 0)) or "raise"; which glyphs the hook font lacks is a
\* property of the font file
Probe(hook_font, hook_char) ==
    IF hook_char \in files.badglyphs THEN "raise"
    ELSE IF hook_char \in files.noglyphs THEN "empty"
    ELSE "ok"

\* the glyph drawn when only the empty mask is answered with the bullet
HookGlyph_no_except(hook_font, hook_char) ==
    IF Probe(hook_font, hook_char) = "empty" THEN Bullet ELSE hook_char

\* the glyph that is drawn after the try/except of lines 106-111
HookGlyph(hook_font, hook_char) ==
    IF Probe(hook_font, hook_char) = "ok" THEN hook_char ELSE Bullet

\* draw_hook_divider: two line segments, then the ornament.  hook_font is
\* never None here: every caller passes the font load_font returned.
draw_hook_divider(center_x, y, width, color, thickness, hook_char, hook_font, hook_gap) ==
    LET half == width \div 2
        glyph == HookGlyph(hook_font, hook_char)
        bbox == TextBBox(glyph, hook_font)
    IN  << LineOp(center_x - half, y, center_x - hook_gap, y, color, thickness),
           LineOp(center_x + hook_gap, y, center_x + half, y, color, thickness),
           TextOp(center_x - (bbox.w \div 2), y - ((bbox.h * 55) \div 100),
                  glyph, hook_font, color) >>

\* draw_divider_pair with the second rule dropped: only line_1_y is looked at
draw_divider_pair_first_only(center_x, width, color, thickness, hook_char, hook_font, hook_gap, line_1_y, line_2_y) ==
    IF line_1_y # <<>>
    THEN draw_hook_divider(center_x, line_1_y[1], width, color, thickness,
                           hook_char, hook_font, hook_gap)
    ELSE <<>>

\* draw_divider_pair: line_1_y and line_2_y are Optional ints
draw_divider_pair(center_x, width, color, thickness, hook_char, hook_font, hook_gap, line_1_y, line_2_y) ==
    (IF line_1_y # <<>>
     THEN draw_hook_divider(center_x, line_1_y[1], width, color, thickness,
                            hook_char, hook_font, hook_gap)
     ELSE <<>>)
    \o
    (IF line_2_y # <<>>
     THEN draw_hook_divider(center_x, line_2_y[1], width, color, thickness,
                            hook_char, hook_font, hook_gap)
     ELSE <<>>)

(***************************************************************************)
(* The invitation document (make_invite.py 146-169).  A JSON value is       *)
(* [t |-> "str", s |-> the string], or t is "null", "num", "bool", "list"   *)
(* or "dict" and s is <<>>.                                                 *)
(***************************************************************************)
JStr(s) == [t |-> "str", s |-> s]
JOther(t) == [t |-> t, s |-> <<>>]

\* read_invitation_json(path): open() raises for a missing file, json.load
\* for text that is no JSON, and a top-level value that is no object raises
\* ValueError
read_invitation_json(path) ==
    IF doc.kind = "object" THEN Ok(doc.fields) ELSE Raise

\* get_optional taking every value that is no string for the empty string
get_optional_lenient(d, key, default) ==
    LET v == IF key \in DOMAIN d THEN d[key] ELSE JStr(default)
    IN  IF v.t # "str" THEN Ok(<<>>) ELSE Ok(v.s)


\* get_optional(d, key, default)
get_optional(d, key, default) ==
    LET v == IF key \in DOMAIN d THEN d[key] ELSE JStr(default)
    IN  IF v.t = "null" THEN Ok(<<>>)
        ELSE IF v.t # "str" THEN Raise
        ELSE Ok(v.s)

ContentKeys ==
    <<"INTRO_TEXT", "TITLE_LINE_1", "TITLE_LINE_2", "DETAIL_LINE_1",
      "DETAIL_LINE_2", "DETAIL_LINE_3", "MESSAGE_LINE_1", "MESSAGE_LINE_2",
      "SIGN_LINE_1", "SIGN_LINE_2", "RSVP_TEXT">>

\* the content of main, lines 236-246, from the field values f
JsonContent(f) ==
    [INTRO   |-> f["INTRO_TEXT"],
     TITLE   |-> StripChars(f["TITLE_LINE_1"] \o <<NL>> \o f["TITLE_LINE_2"],
                            {NL}),
     DETAILS |-> StripChars(Join(<<f["DETAIL_LINE_1"], f["DETAIL_LINE_2"],
                                   f["DETAIL_LINE_3"]>>, NL), {NL}),
     MESSAGE |-> StripChars(f["MESSAGE_LINE_1"] \o <<NL>>
                            \o f["MESSAGE_LINE_2"], {NL}),
     SIGN    |-> StripChars(f["SIGN_LINE_1"] \o <<NL>> \o f["SIGN_LINE_2"],
                            {NL}),
     RSVP    |-> f["RSVP_TEXT"]]

\* the content of the environment-only script, part_000 lines 156-161
EnvContent ==
    [INTRO   |-> env_str("INTRO_TEXT", <<>>),
     TITLE   |-> env_str("TITLE_LINE_1", <<>>) \o <<NL>>
                 \o env_str("TITLE_LINE_2", <<>>),
     DETAILS |-> Join(<<env_str("DETAIL_LINE_1", <<>>),
                        env_str("DETAIL_LINE_2", <<>>),
                        env_str("DETAIL_LINE_3", <<>>)>>, NL),
     MESSAGE |-> env_str("MESSAGE_LINE_1", <<>>) \o <<NL>>
                 \o env_str("MESSAGE_LINE_2", <<>>),
     SIGN    |-> env_str("SIGN_LINE_1", <<>>) \o <<NL>>
                 \o env_str("SIGN_LINE_2", <<>>),
     RSVP    |-> env_str("RSVP_TEXT", <<>>)]

(***************************************************************************)
(* The configuration of a run (make_invite.py 181-231, part_000 139-196).   *)
(***************************************************************************)
DefaultOutput == <<"invite.png">>

\* every setting as the result of its env_* call; the defaults that name
\* another setting use that setting's value
Settings ==
    LET body == env_int("BODY_SIZE", 52)
        thick == env_int("LINE_THICKNESS", 2)
        gap == env_int("HOOK_GAP", 22)
        hook == env_str("HOOK_CHAR", FloralHeart)
        fbody == env_str("FONT_BODY", <<>>)
    IN  [TEMPLATE |-> Ok(env_str("TEMPLATE_IMAGE", <<>>)),
         OUTPUT |-> Ok(env_str("OUTPUT_IMAGE", DefaultOutput)),
         DPI |-> env_int("DPI", 300),
         FONT_TITLE_PATH |-> Ok(env_str("FONT_TITLE", <<>>)),
         FONT_BODY_PATH |-> Ok(fbody),
         FONT_HOOK_PATH |-> Ok(env_str("FONT_HOOK", fbody)),
         TITLE_SIZE |-> env_int("TITLE_SIZE", 120),
         BODY_SIZE |-> body,
         SMALL_SIZE |-> env_int("SMALL_SIZE", 44),
         HOOK_SIZE |-> env_int("HOOK_SIZE", 34),
         RSVP_SIZE |-> env_int("RSVP_SIZE", body.val),
         Y_INTRO |-> env_int("Y_INTRO", 780),
         Y_TITLE |-> env_int("Y_TITLE", 900),
         Y_DETAILS |-> env_int("Y_DETAILS", 1320),
         Y_MESSAGE |-> env_int("Y_MESSAGE", 1840),
         Y_SIGN |-> env_int("Y_SIGN", 2320),
         Y_RSVP |-> env_int("Y_RSVP", 3000),
         LINE_WIDTH |-> env_int("LINE_WIDTH", 900),
         LINE_THICKNESS |-> thick,
         LINE_COLOR |-> env_color("LINE_COLOR", DefaultColorRaw),
         HOOK_GAP |-> gap,
         HOOK_CHAR |-> Ok(hook),
         DETAILS_DIVIDER_LINE_1_Y |-> env_int_opt("DETAILS_DIVIDER_LINE_1_Y"),
         DETAILS_DIVIDER_LINE_2_Y |-> env_int_opt("DETAILS_DIVIDER_LINE_2_Y"),
         MESSAGE_DIVIDER_LINE_1_Y |-> env_int_opt("MESSAGE_DIVIDER_LINE_1_Y"),
         MESSAGE_DIVIDER_LINE_2_Y |-> env_int_opt("MESSAGE_DIVIDER_LINE_2_Y"),
         SMALL_DIVIDER_WIDTH |-> env_int("SMALL_DIVIDER_WIDTH", 150),
         SMALL_DIVIDER_LINE_1_Y |-> env_int_opt("SMALL_DIVIDER_LINE_1_Y"),
         SMALL_DIVIDER_LINE_2_Y |-> env_int_opt("SMALL_DIVIDER_LINE_2_Y"),
         SMALL_DIVIDER_THICKNESS |-> env_int("SMALL_DIVIDER_THICKNESS", thick.val),
         SMALL_DIVIDER_COLOR |-> env_color("SMALL_DIVIDER_COLOR", DefaultColorRaw),
         SMALL_DIVIDER_HOOK_GAP |-> env_int("SMALL_DIVIDER_HOOK_GAP", gap.val),
         SMALL_DIVIDER_HOOK_CHAR |-> Ok(env_str("SMALL_DIVIDER_HOOK_CHAR", hook)),
         TEXT_COLOR |-> Ok(<<45, 45, 45, 255>>)]

\* no env_* call raised
AllOk(settings) == \A k \in DOMAIN settings : settings[k].ok

(***************************************************************************)
(* The run: main of make_invite.py (172-329) and the module-level script    *)
(* of part_000 (139-275), one action per statement group.                   *)
(***************************************************************************)
\* the statement groups with the details block moved before the small
\* divider pair
NextPc_details_first(p) ==
    CASE p = "open" -> "resize"
      [] p = "resize" -> "fonts"
      [] p = "fonts" -> "intro"
      [] p = "intro" -> "title"
      [] p = "title" -> "details"
      [] p = "details" -> "small_divider"
      [] p = "small_divider" -> "details_divider"
      [] p = "details_divider" -> "message"
      [] p = "message" -> "message_divider"
      [] p = "message_divider" -> "sign"
      [] p = "sign" -> "rsvp"
      [] p = "rsvp" -> "save"
      [] p = "save" -> "done"

\* the statement group that follows the group named pc
NextPc(p) ==
    CASE p = "open" -> "resize"
      [] p = "resize" -> "fonts"
      [] p = "fonts" -> "intro"
      [] p = "intro" -> "title"
      [] p = "title" -> "small_divider"
      [] p = "small_divider" -> "details"
      [] p = "details" -> "details_divider"
      [] p = "details_divider" -> "message"
      [] p = "message" -> "message_divider"
      [] p = "message_divider" -> "sign"
      [] p = "sign" -> "rsvp"
      [] p = "rsvp" -> "save"
      [] p = "save" -> "done"

\* an uncaught exception ends the process with status 1
Abort ==
    /\ pc' = "done"
    /\ status' = <<1>>

\* main without the usage check: it goes on whatever argv holds
CheckArgv_no_usage_check ==
    /\ pc = "start"
    /\ variant = "json"
    /\ pc' = "config"
    /\ UNCHANGED <<inputs, twice, mailvars, cfg, content, canvas, fonts, ops,
                   trace, calls, diag, status, out>>

\* main, lines 173-178: the usage check (JSON-driven variant only)
CheckArgv ==
    /\ pc = "start"
    /\ variant = "json"
    /\ IF Len(argv) < 2
       THEN /\ diag' = Append(diag, "usage")
            /\ pc' = "done"
            /\ status' = <<2>>
       ELSE /\ pc' = "config"
            /\ UNCHANGED <<diag, status>>
    /\ UNCHANGED <<inputs, twice, mailvars, cfg, content, canvas, fonts, ops, trace, calls, out>>


\* os.path.exists(path)
PathExists(path) == path \in DOMAIN files.images

\* the output path: argv[2] in the JSON-driven variant when given
OutputPath ==
    IF variant = "json" /\ Len(argv) >= 3 THEN argv[3]
    ELSE env_str("OUTPUT_IMAGE", DefaultOutput)

\* main, lines 181-231: the template check, then every setting is parsed.
\* part_000, lines 139-196: every setting and the text are read; there is
\* no template check.
LoadConfig ==
    /\ pc = "config"
    /\ \E settings \in {Settings} :
           IF variant = "json"
              /\ (env_str("TEMPLATE_IMAGE", <<>>) = <<>>
                  \/ ~PathExists(env_str("TEMPLATE_IMAGE", <<>>)))
           THEN /\ diag' = Append(diag, "template_error")
                /\ pc' = "done"
                /\ status' = <<2>>
                /\ UNCHANGED <<cfg, content>>
           ELSE IF ~AllOk(settings)
           THEN /\ Abort
                /\ UNCHANGED <<cfg, content, diag>>
           ELSE /\ cfg' = [[k \in DOMAIN settings |-> settings[k].val]
                             EXCEPT !.OUTPUT = OutputPath]
                /\ content' = IF variant = "env" THEN EnvContent ELSE content
                /\ pc' = IF variant = "json" THEN "content" ELSE "open"
                /\ UNCHANGED <<diag, status>>
    /\ UNCHANGED <<inputs, twice, mailvars, canvas, fonts, ops, trace, calls, out>>

\* main, lines 234-246: the document is read and the text composed
ReadInvitation ==
    /\ pc = "content"
    /\ \E got \in {[i \in 1..Len(ContentKeys) |->
                      IF read_invitation_json(argv[2]).ok
                      THEN get_optional(read_invitation_json(argv[2]).val,
                                        ContentKeys[i], <<>>)
                      ELSE Raise]} :
           IF \A i \in 1..Len(ContentKeys) : got[i].ok
           THEN /\ content' = JsonContent(
                      [k \in {ContentKeys[i] : i \in 1..Len(ContentKeys)} |->
                          got[CHOOSE i \in 1..Len(ContentKeys) :
                                  ContentKeys[i] = k].val])
                /\ pc' = "open"
                /\ UNCHANGED status
           ELSE /\ Abort
                /\ UNCHANGED content
    /\ UNCHANGED <<inputs, twice, mailvars, cfg, canvas, fonts, ops, trace, calls, diag, out>>

\* Image.open(TEMPLATE).convert("RGBA"): raises for a missing file and for
\* a file that is no image
OpenTemplate ==
    /\ pc = "open"
    /\ IF PathExists(cfg.TEMPLATE) /\ files.images[cfg.TEMPLATE].decodable
       THEN /\ canvas' = <<[w |-> files.images[cfg.TEMPLATE].w,
                            h |-> files.images[cfg.TEMPLATE].h,
                            resampled |-> 0]>>
            /\ trace' = Append(trace, "load_template")
            /\ pc' = NextPc(pc)
            /\ UNCHANGED status
       ELSE /\ Abort
            /\ UNCHANGED <<canvas, trace>>
    /\ UNCHANGED <<inputs, twice, mailvars, cfg, content, fonts, ops, calls, diag, out>>

\* img = ensure_a4(img, DPI); draw = ImageDraw.Draw(img); cx = ...
EnsureA4 ==
    /\ pc = "resize"
    /\ LET r == ensure_a4(canvas[1], cfg.DPI)
       IN  IF r.ok
           THEN /\ canvas' = <<r.val>>
                /\ trace' = Append(trace, "resize")
                /\ pc' = NextPc(pc)
                /\ UNCHANGED status
           ELSE /\ Abort
                /\ UNCHANGED <<canvas, trace>>
    /\ UNCHANGED <<inputs, twice, mailvars, cfg, content, fonts, ops, calls, diag, out>>

\* the five load_font calls, each printing a warning when it falls back
LoadFonts ==
    /\ pc = "fonts"
    /\ LET f == [title |-> load_font(cfg.FONT_TITLE_PATH, cfg.TITLE_SIZE),
                 body  |-> load_font(cfg.FONT_BODY_PATH, cfg.BODY_SIZE),
                 small |-> load_font(cfg.FONT_BODY_PATH, cfg.SMALL_SIZE),
                 hook  |-> load_font(cfg.FONT_HOOK_PATH, cfg.HOOK_SIZE),
                 rsvp  |-> load_font(cfg.FONT_BODY_PATH, cfg.RSVP_SIZE)]
           order == <<"title", "body", "small", "hook", "rsvp">>
           warns == SelectSeq(order, LAMBDA n : f[n].builtin)
       IN  /\ fonts' = f
           /\ diag' = diag \o [i \in 1..Len(warns) |-> "font_warn"]
    /\ trace' = Append(trace, "fonts")
    /\ pc' = NextPc(pc)
    /\ UNCHANGED <<inputs, twice, mailvars, cfg, content, canvas, ops, calls, status, out>>

\* cx + 50, the centre every block is drawn around
CenterX == (canvas[1].w \div 2) + 50

\* no block is ever suppressed
Suppressed_never(text) == FALSE

\* "if TEXT:" of the JSON-driven variant; the environment-only script
\* calls draw_centered_multiline unconditionally
Suppressed(text) == variant = "json" /\ text = <<>>

\* one text block: the guarded draw_centered_multiline call
TextStep(step, text, font, top_y, spacing) ==
    /\ pc = step
    /\ IF Suppressed(text)
       THEN UNCHANGED <<ops, trace, calls>>
       ELSE \E r \in {draw_centered_multiline(text, font, CenterX, top_y,
                                               cfg.TEXT_COLOR, spacing)} :
                /\ ops' = ops \o r.ops
                /\ trace' = Append(trace, step)
                /\ calls' = Append(calls,
                      [fn |-> "draw_centered_multiline",
                       step |-> step, text |-> text, font |-> font,
                       center_x |-> CenterX, top_y |-> top_y,
                       line_spacing_px |-> spacing, at |-> Len(ops),
                       n |-> Len(r.ops), ret |-> r.y])
    /\ pc' = NextPc(pc)
    /\ UNCHANGED <<inputs, twice, mailvars, cfg, content, canvas, fonts, diag, status, out>>

\* one divider pair: the draw_divider_pair call
DividerStep(step, width, color, thickness, hook_char, hook_gap, y1, y2) ==
    /\ pc = step
    /\ \E drawn \in {draw_divider_pair(CenterX, width, color, thickness,
                                       hook_char, fonts.hook, hook_gap,
                                       y1, y2)} :
          /\ ops' = ops \o drawn
          /\ calls' = Append(calls,
                [fn |-> "draw_divider_pair", step |-> step,
                 center_x |-> CenterX, width |-> width, color |-> color,
                 thickness |-> thickness, hook_char |-> hook_char,
                 hook_font |-> fonts.hook, hook_gap |-> hook_gap,
                 line_1_y |-> y1, line_2_y |-> y2, at |-> Len(ops),
                 n |-> Len(drawn)])
    /\ trace' = Append(trace, step)
    /\ pc' = NextPc(pc)
    /\ UNCHANGED <<inputs, twice, mailvars, cfg, content, canvas, fonts, diag, status, out>>

DrawIntro == TextStep("intro", content.INTRO, fonts.small, cfg.Y_INTRO, 10)

\* the title is guarded by "if TITLE:" like the other blocks
DrawTitle == TextStep("title", content.TITLE, fonts.title, cfg.Y_TITLE, 6)

DrawSmallDivider ==
    DividerStep("small_divider", cfg.SMALL_DIVIDER_WIDTH,
                cfg.SMALL_DIVIDER_COLOR, cfg.SMALL_DIVIDER_THICKNESS,
                cfg.SMALL_DIVIDER_HOOK_CHAR, cfg.SMALL_DIVIDER_HOOK_GAP,
                cfg.SMALL_DIVIDER_LINE_1_Y, cfg.SMALL_DIVIDER_LINE_2_Y)

DrawDetails ==
    TextStep("details", content.DETAILS, fonts.body, cfg.Y_DETAILS, 14)

DrawDetailsDivider ==
    DividerStep("details_divider", cfg.LINE_WIDTH, cfg.LINE_COLOR,
                cfg.LINE_THICKNESS, cfg.HOOK_CHAR, cfg.HOOK_GAP,
                cfg.DETAILS_DIVIDER_LINE_1_Y, cfg.DETAILS_DIVIDER_LINE_2_Y)

DrawMessage ==
    TextStep("message", content.MESSAGE, fonts.small, cfg.Y_MESSAGE, 14)

DrawMessageDivider ==
    DividerStep("message_divider", cfg.LINE_WIDTH, cfg.LINE_COLOR,
                cfg.LINE_THICKNESS, cfg.HOOK_CHAR, cfg.HOOK_GAP,
                cfg.MESSAGE_DIVIDER_LINE_1_Y, cfg.MESSAGE_DIVIDER_LINE_2_Y)

DrawSign == TextStep("sign", content.SIGN, fonts.body, cfg.Y_SIGN, 12)

DrawRsvp == TextStep("rsvp", content.RSVP, fonts.rsvp, cfg.Y_RSVP, 10)

\* a save that keeps what an existing output file holds and adds to it
Save_appending ==
    /\ pc = "save"
    /\ out' = [p \in DOMAIN out \cup {cfg.OUTPUT} |->
                  IF p = cfg.OUTPUT
                  THEN [w |-> canvas[1].w, h |-> canvas[1].h,
                        ops |-> IF p \in DOMAIN out THEN out[p].ops \o ops
                                ELSE ops]
                  ELSE out[p]]
    /\ trace' = Append(trace, "write")
    /\ diag' = Append(diag, "ok")
    /\ pc' = NextPc(pc)
    /\ status' = <<0>>
    /\ UNCHANGED <<inputs, twice, mailvars, cfg, content, canvas, fonts, ops,
                   calls>>


\* img.save(output_path, "PNG"), the [OK] line, and the return of status 0
Save ==
    /\ pc = "save"
    /\ out' = [p \in DOMAIN out \cup {cfg.OUTPUT} |->
                  IF p = cfg.OUTPUT
                  THEN [w |-> canvas[1].w, h |-> canvas[1].h, ops |-> ops]
                  ELSE out[p]]
    /\ trace' = Append(trace, "write")
    /\ diag' = Append(diag, "ok")
    /\ pc' = NextPc(pc)
    /\ status' = <<0>>
    /\ UNCHANGED <<inputs, twice, mailvars, cfg, content, canvas, fonts, ops, calls>>

Next ==
    \/ CheckArgv
    \/ LoadConfig
    \/ ReadInvitation
    \/ OpenTemplate
    \/ EnsureA4
    \/ LoadFonts
    \/ DrawIntro
    \/ DrawTitle
    \/ DrawSmallDivider
    \/ DrawDetails
    \/ DrawDetailsDivider
    \/ DrawMessage
    \/ DrawMessageDivider
    \/ DrawSign
    \/ DrawRsvp
    \/ Save

(***************************************************************************)
(* The inputs of a run.  Init draws them from families that each vary a     *)
(* few inputs around a base configuration.                                  *)
(***************************************************************************)
\* all strings over alphabet of length at most n
Strs(alphabet, n) == UNION {[1..k -> alphabet] : k \in 0..n}

\* f with the Optional value v at key k: None leaves the key unset
With(f, k, v) == IF v = <<>> THEN f ELSE (k :> v[1]) @@ f

TemplatePath == <<"template.png">>
TitleFontPath == <<"title.ttf">>
BodyFontPath == <<"body.ttf">>
HookFontPath == <<"hook.ttf">>

Image(w, h) == [decodable |-> TRUE, w |-> w, h |-> h]

BaseFiles ==
    [images |-> (TemplatePath :> Image(8, 12)),
     fontfiles |-> {TitleFontPath, BodyFontPath, HookFontPath},
     noglyphs |-> {},
     badglyphs |-> {}]

BaseEnv ==
    ("TEMPLATE_IMAGE" :> TemplatePath) @@ ("FONT_TITLE" :> TitleFontPath)
    @@ ("FONT_BODY" :> BodyFontPath) @@ ("FONT_HOOK" :> HookFontPath)

\* the text fields of the base invitation
BaseText ==
    ("INTRO_TEXT" :> <<"a">>) @@ ("TITLE_LINE_1" :> <<"T", "a">>)
    @@ ("TITLE_LINE_2" :> <<"a">>) @@ ("DETAIL_LINE_1" :> <<"T">>)
    @@ ("MESSAGE_LINE_1" :> <<"a">>) @@ ("MESSAGE_LINE_2" :> <<"T">>)
    @@ ("SIGN_LINE_1" :> <<"a">>) @@ ("RSVP_TEXT" :> <<"T">>)

NoDoc == [kind |-> "missing", fields |-> <<>>]

\* a run of the JSON-driven variant: the text is the document's
JsonRun(e, text, f) ==
    [variant |-> "json", argv |-> <<<<"make_invite.py">>, <<"inv.json">>>>,
     env |-> e,
     doc |-> [kind |-> "object",
              fields |-> [k \in DOMAIN text |-> JStr(text[k])]],
     files |-> f]

\* a run of the environment-only variant: the text is in the environment
EnvRun(e, text, f) ==
    [variant |-> "env", argv |-> <<<<"make_invite copy.py">>>>,
     env |-> text @@ e, doc |-> NoDoc, files |-> f]

Runs(e, text, f) == {JsonRun(e, text, f), EnvRun(e, text, f)}

\* raw values of an optional integer setting: unset, or any short string
RawIntAlphabet == {"0", "5", "-", SP, "x"}
RawOpt == {<<>>} \cup {<<s>> : s \in Strs(RawIntAlphabet, MaxRawLen)}
FewOpt == {<<>>, <<<<>>>>, <<<<"0">>>>, <<<<"5">>>>}
SetOrNot(s) == {<<>>, <<s>>}

\* the divider Y settings
DividerFamily ==
    UNION {Runs(With(With(BaseEnv, "SMALL_DIVIDER_LINE_1_Y", p[1]),
                     "SMALL_DIVIDER_LINE_2_Y", p[2]), BaseText, BaseFiles) :
           p \in (RawOpt \X FewOpt) \cup (FewOpt \X RawOpt)}
    \cup
    UNION {Runs(With(With(With(With(With(With(BaseEnv,
                     "SMALL_DIVIDER_LINE_1_Y", s1),
                     "SMALL_DIVIDER_LINE_2_Y", s2),
                     "DETAILS_DIVIDER_LINE_1_Y", d1),
                     "DETAILS_DIVIDER_LINE_2_Y", d2),
                     "MESSAGE_DIVIDER_LINE_1_Y", m1),
                     "MESSAGE_DIVIDER_LINE_2_Y", m2), BaseText, BaseFiles) :
           s1 \in SetOrNot(<<"0">>), s2 \in SetOrNot(<<"5">>),
           d1 \in SetOrNot(<<"7">>), d2 \in SetOrNot(<<"8">>),
           m1 \in SetOrNot(<<"9">>), m2 \in SetOrNot(<<"0">>)}

\* an environment in which every divider pair draws its first rule
DividersOn ==
    ("SMALL_DIVIDER_LINE_1_Y" :> <<"5">>)
    @@ ("DETAILS_DIVIDER_LINE_1_Y" :> <<"7">>)
    @@ ("MESSAGE_DIVIDER_LINE_1_Y" :> <<"9">>) @@ BaseEnv

\* raw colour values: up to MaxParts components joined by commas
ColorParts == {<<>>, <<"7">>, <<"2", SP>>, <<"x">>}
ColorRaws ==
    {Join(c, ",") : c \in UNION {[1..k -> ColorParts] : k \in 1..MaxParts}}

\* the colour settings: one of the two is fuzzed, in one of the variants
ColorFamily ==
    {JsonRun(With(With(DividersOn, "LINE_COLOR", <<c>>),
                  "SMALL_DIVIDER_COLOR", s), BaseText, BaseFiles) :
        c \in ColorRaws, s \in SetOrNot(<<"4", ",", "5", ",", "6">>)}
    \cup {EnvRun(With(With(DividersOn, "LINE_COLOR", l),
                       "SMALL_DIVIDER_COLOR", <<c>>), BaseText, BaseFiles) :
             l \in SetOrNot(<<"1", ",", "2", ",", "3">>), c \in ColorRaws}
    \cup Runs(DividersOn, BaseText, BaseFiles)

\* the global divider style: all defaults, all set, or a rule narrower
\* than its gap
GlobalStyles ==
    {BaseEnv,
     ("LINE_WIDTH" :> <<"3", "0", "1">>) @@ ("LINE_THICKNESS" :> <<"3">>)
     @@ ("LINE_COLOR" :> <<"1", ",", "2", ",", "3">>)
     @@ ("HOOK_GAP" :> <<"1", "0">>) @@ ("HOOK_CHAR" :> <<"*">>) @@ BaseEnv,
     ("LINE_WIDTH" :> <<"8">>) @@ ("HOOK_GAP" :> <<"9">>) @@ BaseEnv}

StyleFamily ==
    UNION {Runs(With(With(With(With(With(DividersOn @@ g,
                     "SMALL_DIVIDER_WIDTH", w),
                     "SMALL_DIVIDER_THICKNESS", t),
                     "SMALL_DIVIDER_COLOR", c),
                     "SMALL_DIVIDER_HOOK_GAP", hg),
                     "SMALL_DIVIDER_HOOK_CHAR", hc), BaseText, BaseFiles) :
           g \in GlobalStyles,
           w \in SetOrNot(<<"1", "0", "0">>), t \in SetOrNot(<<"1">>),
           c \in SetOrNot(<<"4", ",", "5", ",", "6">>),
           hg \in SetOrNot(<<"4">>), hc \in SetOrNot(<<"~">>)}

\* content fields: any short text of letters, blanks and line breaks
TextAlphabet == {"a", SP, NL}
Fields == Strs(TextAlphabet, MaxFieldLen)
FewFields == {<<>>, <<"a">>, <<NL>>, <<"T", SP, "a">>}
NoText == <<>>

ContentFamily ==
    UNION {Runs(DividersOn, t, BaseFiles) :
           t \in {("INTRO_TEXT" :> p[1]) @@ ("RSVP_TEXT" :> p[2]) @@ BaseText :
                     p \in Fields \X FewFields}
             \cup {("DETAIL_LINE_1" :> p[1]) @@ ("DETAIL_LINE_2" :> p[2])
                   @@ ("DETAIL_LINE_3" :> p[3]) @@ BaseText :
                     p \in Fields \X FewFields \X {<<>>, <<"T">>}}
             \cup {("MESSAGE_LINE_1" :> p[1]) @@ ("MESSAGE_LINE_2" :> p[2])
                   @@ BaseText :
                     p \in (Fields \X FewFields) \cup (FewFields \X Fields)}
             \cup {("SIGN_LINE_1" :> p[1]) @@ ("SIGN_LINE_2" :> p[2])
                   @@ BaseText : p \in FewFields \X Fields}
             \cup {("TITLE_LINE_1" :> p[1]) @@ ("TITLE_LINE_2" :> p[2])
                   @@ BaseText : p \in Fields \X FewFields}
             \cup {NoText}}

\* str(n) for n >= 0
DigitChar(n) == CHOOSE c \in Digits : DigitVal(c) = n
RECURSIVE IntStr(_)
IntStr(n) ==
    IF n < 10 THEN <<DigitChar(n)>>
    ELSE IntStr(n \div 10) \o <<DigitChar(n % 10)>>

\* the DPI setting and the size of the template image
DpiRaws ==
    {<<>>, <<<<"5", "0">>>>, <<<<"-", "1">>>>}
    \cup {<<IntStr(d)>> : d \in 0..MaxDpi}
TemplateSizes ==
    {Image(TargetW(d), TargetH(d)) : d \in 1..MaxDpi}
    \cup {Image(8, 13), Image(1, 1), Image(414, 584), Image(2481, 3507)}

CanvasFamily ==
    UNION {Runs(With(DividersOn, "DPI", d), BaseText,
                [BaseFiles EXCEPT !.images = (TemplatePath :> i)]) :
           d \in DpiRaws, i \in TemplateSizes}

\* which of the ornaments the hook font can rasterize
HookChars == {FloralHeart, <<"*">>, <<"~">>}

GlyphFamily ==
    UNION {Runs(With(With(With(DividersOn, "HOOK_CHAR", hc),
                     "SMALL_DIVIDER_HOOK_CHAR", sc), "FONT_HOOK", fh),
                BaseText,
                [BaseFiles EXCEPT
                   !.noglyphs = {g \in HookChars : a[g] = "empty"},
                   !.badglyphs = {g \in HookChars : a[g] = "raise"}]) :
           hc \in SetOrNot(<<"*">>), sc \in SetOrNot(<<"~">>),
           fh \in {<<HookFontPath>>, <<<<"none.ttf">>>>},
           a \in [HookChars -> {"ok", "empty", "raise"}]}

\* runs with a missing argument, template, document or font, a document
\* of the wrong shape, or a setting that is no integer
BadDocs ==
    {NoDoc, [kind |-> "invalid", fields |-> <<>>],
     [kind |-> "array", fields |-> <<>>]}
    \cup {[kind |-> "object",
           fields |-> (k :> v) @@ [f \in DOMAIN BaseText |-> JStr(BaseText[f])]] :
             k \in {"INTRO_TEXT", "DETAIL_LINE_2", "RSVP_TEXT"},
             v \in {JOther("null"), JOther("num"), JOther("bool"),
                    JOther("list"), JOther("dict")}}
BadFiles ==
    {[BaseFiles EXCEPT !.images = <<>>],
     [BaseFiles EXCEPT !.images = (TemplatePath :>
                                     [decodable |-> FALSE, w |-> 0, h |-> 0])],
     [BaseFiles EXCEPT !.fontfiles = {}],
     [BaseFiles EXCEPT !.fontfiles = {BodyFontPath}]}
BadEnvs ==
    {[k \in DOMAIN DividersOn \ {"TEMPLATE_IMAGE"} |-> DividersOn[k]],
     [k \in DOMAIN DividersOn \ {"FONT_TITLE", "FONT_BODY", "FONT_HOOK"}
        |-> DividersOn[k]],
     ("TEMPLATE_IMAGE" :> <<>>) @@ DividersOn,
     ("TEMPLATE_IMAGE" :> <<"other.png">>) @@ DividersOn,
     ("TITLE_SIZE" :> <<"x">>) @@ DividersOn,
     ("TITLE_SIZE" :> <<"0">>) @@ DividersOn,
     ("Y_TITLE" :> <<"1", "2">>) @@ ("RSVP_SIZE" :> <<SP>>)
       @@ ("BODY_SIZE" :> <<"8">>) @@ ("OUTPUT_IMAGE" :> <<"o.png">>)
       @@ DividersOn,
     ("LINE_COLOR" :> <<"r", "e", "d">>) @@ DividersOn}

ErrorFamily ==
    {[JsonRun(DividersOn, BaseText, BaseFiles) EXCEPT !.argv = a] :
        a \in {<<<<"make_invite.py">>>>,
               <<<<"make_invite.py">>, <<"inv.json">>, <<"out.png">>>>}}
    \cup {[JsonRun(DividersOn, BaseText, BaseFiles) EXCEPT !.doc = d] :
            d \in BadDocs}
    \cup UNION {Runs(DividersOn, BaseText, f) : f \in BadFiles}
    \cup UNION {Runs(e, BaseText, BaseFiles) : e \in BadEnvs}

\* no mail sender has been started
MailIdle ==
    /\ mprog = "none"
    /\ menv = <<>>
    /\ mfs = <<>>
    /\ mpc = "idle"
    /\ mq = <<>>
    /\ mcur = <<>>
    /\ mlog = <<>>
    /\ mstatus = <<>>

AllRuns ==
    DividerFamily \cup ColorFamily \cup StyleFamily \cup ContentFamily
    \cup CanvasFamily \cup GlyphFamily \cup ErrorFamily

Init ==
    /\ \E r \in AllRuns :
          /\ variant = r.variant
          /\ argv = r.argv
          /\ env = r.env
          /\ doc = r.doc
          /\ files = r.files
    /\ pc = IF variant = "json" THEN "start" ELSE "config"
    /\ cfg = <<>>
    /\ content = <<>>
    /\ canvas = <<>>
    /\ fonts = <<>>
    /\ ops = <<>>
    /\ trace = <<>>
    /\ calls = <<>>
    /\ diag = <<>>
    /\ status = <<>>
    /\ out = <<>>
    /\ run = 1
    /\ first = <<>>
    /\ MailIdle

Spec == Init /\ [][Next]_vars

(***************************************************************************)
(* Two renders in a row.  Each render is a process of its own: nothing of   *)
(* the first is left but the files it wrote.  The second is either the      *)
(* same program on the same inputs (Rerun) or the environment-only script   *)
(* on the text of the document (RunOtherVariant).                           *)
(***************************************************************************)
\* what the run that ends here did
Done ==
    [variant |-> variant, ops |-> ops, calls |-> calls, trace |-> trace,
     diag |-> diag, status |-> status, out |-> out]

\* a new process starts: the locals of the last one are gone, the files it
\* wrote are still there
NewProcess ==
    /\ pc = "done"
    /\ run = 1
    /\ run' = 2
    /\ first' = <<Done>>
    /\ cfg' = <<>>
    /\ content' = <<>>
    /\ canvas' = <<>>
    /\ fonts' = <<>>
    /\ ops' = <<>>
    /\ trace' = <<>>
    /\ calls' = <<>>
    /\ diag' = <<>>
    /\ status' = <<>>
    /\ UNCHANGED <<files, out, mailvars>>

\* the same program is started again on the same inputs
Rerun ==
    /\ NewProcess
    /\ pc' = IF variant = "json" THEN "start" ELSE "config"
    /\ UNCHANGED <<variant, argv, env, doc>>

\* the text fields of the document, as settings of the environment
DocAsEnv ==
    [k \in {f \in DOMAIN doc.fields : doc.fields[f].t = "str"} |->
        doc.fields[k].s]

\* after a render of the JSON-driven variant, the environment-only script
\* is started with the same settings and files and with the text of the
\* document in its environment
RunOtherVariant ==
    /\ NewProcess
    /\ variant = "json"
    /\ status = <<0>>
    /\ variant' = "env"
    /\ argv' = <<<<"make_invite copy.py">>>>
    /\ doc' = NoDoc
    /\ env' = DocAsEnv @@ env
    /\ pc' = "config"

NextTwice == Next \/ Rerun \/ RunOtherVariant

\* content fields for the comparison of two renders
TwiceFields == Strs(TextAlphabet, 1) \cup {<<"T", SP, "a">>, <<NL, "a">>}

TwiceContent ==
    UNION {Runs(DividersOn, t, BaseFiles) :
           t \in {("INTRO_TEXT" :> p[1]) @@ ("RSVP_TEXT" :> p[2]) @@ BaseText :
                     p \in TwiceFields \X TwiceFields}
             \cup {("DETAIL_LINE_1" :> p[1]) @@ ("DETAIL_LINE_2" :> p[2])
                   @@ ("DETAIL_LINE_3" :> p[3]) @@ BaseText :
                     p \in TwiceFields \X FewFields \X FewFields}
             \cup {("MESSAGE_LINE_1" :> p[1]) @@ ("MESSAGE_LINE_2" :> p[2])
                   @@ BaseText : p \in TwiceFields \X TwiceFields}
             \cup {("SIGN_LINE_1" :> p[1]) @@ ("SIGN_LINE_2" :> p[2])
                   @@ BaseText : p \in TwiceFields \X TwiceFields}
             \cup {("TITLE_LINE_1" :> p[1]) @@ ("TITLE_LINE_2" :> p[2])
                   @@ BaseText : p \in TwiceFields \X TwiceFields}
             \cup {NoText}}

TwiceRuns ==
    TwiceContent \cup StyleFamily \cup GlyphFamily \cup ErrorFamily

InitTwice ==
    /\ \E r \in TwiceRuns :
          /\ variant = r.variant
          /\ argv = r.argv
          /\ env = r.env
          /\ doc = r.doc
          /\ files = r.files
    /\ pc = IF variant = "json" THEN "start" ELSE "config"
    /\ cfg = <<>>
    /\ content = <<>>
    /\ canvas = <<>>
    /\ fonts = <<>>
    /\ ops = <<>>
    /\ trace = <<>>
    /\ calls = <<>>
    /\ diag = <<>>
    /\ status = <<>>
    /\ out = <<>>
    /\ run = 1
    /\ first = <<>>
    /\ MailIdle

SpecTwice == InitTwice /\ [][NextTwice]_vars


(***************************************************************************)
(* The mail senders: sendmail_image.py (two recipient groups, one image     *)
(* each) and sendmail.py (one list, one image).  Each builds one message    *)
(* per recipient and hands it to send_raw, which asks gmail_service for an  *)
(* authorized service and then calls the send API.                          *)
(***************************************************************************)
\* longest fuzzed recipient list
MaxRcptLen == 3

\* s.replace(a, b) for one-character a and b
Replace(s, a, b) == [i \in 1..Len(s) |-> IF s[i] = a THEN b ELSE s[i]]

\* os.getenv(key, default) of the mail sender
MGetenv(key, default) == IF key \in DOMAIN menv THEN menv[key] ELSE default

\* [x.strip() for x in raw.split(",") if x.strip()]
StrippedParts(raw) ==
    LET parts == Split(raw, ",")
    IN  SelectSeq([i \in 1..Len(parts) |-> Strip(parts[i])],
                  LAMBDA x : x # <<>>)

\* parse_recipients(value): commas and line breaks separate recipients
parse_recipients(value) ==
    IF value = <<>> THEN <<>> ELSE StrippedParts(Replace(value, NL, ","))

\* token.json: absent, unreadable as authorized-user data, or credentials
NoToken == [kind |-> "none"]
CorruptToken == [kind |-> "corrupt"]
Creds(has_token, expired, refresh_token) ==
    [kind |-> "creds", has_token |-> has_token, expired |-> expired,
     refresh_token |-> refresh_token]

\* creds.valid: there is an access token and it has not expired
Valid(c) == c.has_token /\ ~c.expired

\* gmail_service with a refresh for every cached authorization, valid or
\* not
gmail_service_always_refresh ==
    LET t == mfs.token
    IN  IF t.kind = "corrupt"
        THEN [ok |-> FALSE, did |-> <<"load_failed">>, token |-> t]
        ELSE IF t.kind = "creds" /\ t.refresh_token
        THEN IF mfs.refresh_ok
             THEN [ok |-> TRUE, did |-> <<"refresh", "write_token">>,
                   token |-> Creds(TRUE, FALSE, TRUE)]
             ELSE [ok |-> FALSE, did |-> <<"refresh_failed">>, token |-> t]
        ELSE IF ~mfs.credentials
        THEN [ok |-> FALSE, did |-> <<"no_credentials">>, token |-> t]
        ELSE IF mfs.flow_ok
        THEN [ok |-> TRUE, did |-> <<"acquire", "write_token">>,
              token |-> Creds(TRUE, FALSE, TRUE)]
        ELSE [ok |-> FALSE, did |-> <<"acquire_failed">>, token |-> t]

\* gmail_service(): what it does, whether it returns a service, and the
\* token.json it leaves.  Credentials.from_authorized_user_file raises for
\* a file it cannot read as authorization; creds.refresh and
\* flow.run_local_server raise when the remote side refuses.
gmail_service ==
    LET t == mfs.token
    IN  IF t.kind = "corrupt"
        THEN [ok |-> FALSE, did |-> <<"load_failed">>, token |-> t]
        ELSE IF t.kind = "creds" /\ Valid(t)
        THEN [ok |-> TRUE, did |-> <<"use_cached">>, token |-> t]
        ELSE IF t.kind = "creds" /\ t.expired /\ t.refresh_token
        THEN IF mfs.refresh_ok
             THEN [ok |-> TRUE, did |-> <<"refresh", "write_token">>,
                   token |-> Creds(TRUE, FALSE, TRUE)]
             ELSE [ok |-> FALSE, did |-> <<"refresh_failed">>, token |-> t]
        ELSE IF ~mfs.credentials
        THEN [ok |-> FALSE, did |-> <<"no_credentials">>, token |-> t]
        ELSE IF mfs.flow_ok
        THEN [ok |-> TRUE, did |-> <<"acquire", "write_token">>,
              token |-> Creds(TRUE, FALSE, TRUE)]
        ELSE [ok |-> FALSE, did |-> <<"acquire_failed">>, token |-> t]

\* attach_inline_image(outer, path, cid): the file must exist and its name
\* must not be that of another media type
attach_inline_image(path) ==
    IF path \notin DOMAIN mfs.images THEN Raise
    ELSE IF mfs.images[path] # "image" THEN Raise
    ELSE Ok(<<"invite">>)

\* the sends of one send_variant call
Sends(recipients, image_path, label) ==
    [i \in 1..Len(recipients) |->
        [to |-> recipients[i], image_path |-> image_path, label |-> label]]

\* the image sendmail.py sends when IMAGE_PATH is unset
DefaultImagePath == <<"d">>

\* an uncaught exception ends the sender with status 1
MailAbort(what) ==
    /\ mlog' = Append(mlog, [ev |-> what])
    /\ mpc' = "done"
    /\ mstatus' = <<1>>

\* the sender has nothing left to do
MailAfter(q) ==
    /\ mq' = q
    /\ mpc' = IF q = <<>> THEN "done" ELSE "build"
    /\ mstatus' = IF q = <<>> THEN <<0>> ELSE mstatus

\* the variables of the renderer
rendervars ==
    <<inputs, pc, cfg, content, canvas, fonts, ops, trace, calls, diag,
      status, out, twice>>

\* sendmail_image.py, lines 219-275: the recipient groups are parsed, the
\* checks made, and the church sends are queued before the home sends
MailMain ==
    /\ mpc = "main"
    /\ mprog = "sendmail_image"
    /\ LET to_church == parse_recipients(MGetenv("TO_CHURCH", <<>>))
           to_home == parse_recipients(MGetenv("TO_HOME", <<>>))
           image_1 == Strip(MGetenv("IMAGE_PATH_1", <<>>))
           image_2 == Strip(MGetenv("IMAGE_PATH_2", <<>>))
       IN  IF to_church = <<>> /\ to_home = <<>>
           THEN MailAbort("no_recipients") /\ UNCHANGED mq
           ELSE IF image_1 = <<>>
           THEN MailAbort("image_1_required") /\ UNCHANGED mq
           ELSE IF image_2 = <<>>
           THEN MailAbort("image_2_required") /\ UNCHANGED mq
           ELSE /\ MailAfter(Sends(to_church, image_1, "CHURCH")
                             \o Sends(to_home, image_2, "HOME"))
                /\ UNCHANGED mlog
    /\ UNCHANGED <<rendervars, mprog, menv, mfs, mcur>>

\* sendmail.py, lines 136-156: one list in TO, one image
SendmailMain ==
    /\ mpc = "main"
    /\ mprog = "sendmail"
    /\ LET to_list == Strip(MGetenv("TO", <<>>))
           image_path == MGetenv("IMAGE_PATH", DefaultImagePath)
       IN  IF to_list = <<>>
           THEN MailAbort("no_recipients") /\ UNCHANGED mq
           ELSE /\ MailAfter(Sends(StrippedParts(to_list), image_path, "TO"))
                /\ UNCHANGED mlog
    /\ UNCHANGED <<rendervars, mprog, menv, mfs, mcur>>

\* build_raw_message for the next recipient: the message carries the one
\* inline image attach_inline_image gives it
BuildRawMessage ==
    /\ mpc = "build"
    /\ LET s == Head(mq)
           img == attach_inline_image(s.image_path)
       IN  IF img.ok
           THEN /\ mcur' = <<[to |-> s.to, image_path |-> s.image_path,
                              label |-> s.label, cids |-> img.val]>>
                /\ mpc' = "send_raw"
                /\ UNCHANGED <<mlog, mstatus>>
           ELSE /\ MailAbort("image_error")
                /\ UNCHANGED mcur
    /\ UNCHANGED <<rendervars, mprog, menv, mfs, mq>>

\* send_raw, line 187: service = gmail_service()
GmailService ==
    /\ mpc = "send_raw"
    /\ \E g \in {gmail_service} :
          /\ mlog' = mlog
                \o <<[ev |-> "send_raw", to |-> mcur[1].to,
                      seen |-> mfs.token, credentials |-> mfs.credentials]>>
                \o [i \in 1..Len(g.did) |-> [ev |-> g.did[i]]]
          /\ mfs' = [mfs EXCEPT !.token = g.token]
          /\ mpc' = IF g.ok THEN "send" ELSE "done"
          /\ mstatus' = IF g.ok THEN mstatus ELSE <<1>>
    /\ UNCHANGED <<rendervars, mprog, menv, mq, mcur>>

\* send_raw with one retry of a refused message
SendMessage_retry_once ==
    /\ mpc = "send"
    /\ IF mcur[1].to \in mfs.rejects
       THEN IF mlog[Len(mlog)].ev = "send_failed"
            THEN /\ MailAbort("send_failed")
                 /\ UNCHANGED <<mq, mcur>>
            ELSE /\ mlog' = Append(mlog, [ev |-> "send_failed"])
                 /\ UNCHANGED <<mpc, mstatus, mq, mcur>>
       ELSE /\ mlog' = Append(mlog, [ev |-> "send", msg |-> mcur[1]])
            /\ mcur' = <<>>
            /\ MailAfter(Tail(mq))
    /\ UNCHANGED <<rendervars, mprog, menv, mfs>>


\* send_raw, line 188: the message is handed to the send API, which may
\* refuse it
SendMessage ==
    /\ mpc = "send"
    /\ IF mcur[1].to \in mfs.rejects
       THEN /\ MailAbort("send_failed")
            /\ UNCHANGED <<mq, mcur>>
       ELSE /\ mlog' = Append(mlog, [ev |-> "send", msg |-> mcur[1]])
            /\ mcur' = <<>>
            /\ MailAfter(Tail(mq))
    /\ UNCHANGED <<rendervars, mprog, menv, mfs>>

MailNext ==
    \/ MailMain
    \/ SendmailMain
    \/ BuildRawMessage
    \/ GmailService
    \/ SendMessage

\* the inputs of a mail run; the send API refuses the recipients in
\* rejects ("x" is never a recipient)
ChurchImage == <<"c">>
HomeImage == <<"h">>
TextFile == <<"t">>

MailFiles(token, credentials, refresh_ok, flow_ok, rejects) ==
    [token |-> token, credentials |-> credentials,
     refresh_ok |-> refresh_ok, flow_ok |-> flow_ok, rejects |-> rejects,
     images |-> (ChurchImage :> "image") @@ (HomeImage :> "image")
                @@ (DefaultImagePath :> "image") @@ (TextFile :> "text")]

GoodFiles ==
    MailFiles(Creds(TRUE, FALSE, TRUE), TRUE, TRUE, TRUE, {<<"x">>})

Tokens ==
    {NoToken, CorruptToken}
    \cup {Creds(a, b, c) : a \in BOOLEAN, b \in BOOLEAN, c \in BOOLEAN}

MailRun(prog, e, f) == [mprog |-> prog, menv |-> e, mfs |-> f]

\* the environment of a sendmail_image run
ImageEnv(church, home, image_1, image_2) ==
    With(With(With(With(<<>>, "TO_CHURCH", church), "TO_HOME", home),
              "IMAGE_PATH_1", image_1), "IMAGE_PATH_2", image_2)

\* every state of the cached authorization, with and without
\* credentials.json, with the remote side granting or refusing
AuthFamily ==
    {MailRun(p[1], ImageEnv(<<<<"a">>>>, <<<<"b">>>>, <<ChurchImage>>,
                            <<HomeImage>>)
                   @@ ("TO" :> <<"a", ",", "b">>),
             MailFiles(p[2], p[3], p[4], p[5], {<<"x">>})) :
        p \in {"sendmail_image", "sendmail"} \X Tokens \X BOOLEAN \X BOOLEAN
              \X BOOLEAN}

\* recipient lists: any short text of names, separators and blanks
RcptAlphabet == {"a", "b", ",", NL, SP}
RcptRaws == {<<>>} \cup {<<s>> : s \in Strs(RcptAlphabet, MaxRcptLen)}
FewRcpts == {<<>>, <<<<>>>>, <<<<"b">>>>, <<<<"a", ",", "b">>>>}

RecipientFamily ==
    {MailRun("sendmail_image",
             ImageEnv(p[1], p[2], <<ChurchImage>>, <<HomeImage>>),
             [GoodFiles EXCEPT !.rejects = rej]) :
        p \in (RcptRaws \X FewRcpts) \cup (FewRcpts \X RcptRaws),
        rej \in {{<<"x">>}, {<<"a">>}, {<<"b">>}}}
    \cup {MailRun("sendmail", With(<<>>, "TO", t), GoodFiles) : t \in RcptRaws}

\* the image settings: unset, blank, a missing file, a file of another type
ImagePaths ==
    {<<>>, <<<<>>>>, <<<<SP>>>>, <<<<SP, "c">>>>, <<ChurchImage>>,
     <<HomeImage>>, <<<<"x">>>>, <<TextFile>>}

ImageFamily ==
    {MailRun("sendmail_image", ImageEnv(p[1], p[2], p[3], p[4]), GoodFiles) :
        p \in {<<>>, <<<<"a">>>>} \X {<<>>, <<<<"b">>>>}
              \X ImagePaths \X ImagePaths}
    \cup {MailRun("sendmail", With(With(<<>>, "TO", <<<<"a">>>>),
                                   "IMAGE_PATH", i), GoodFiles) :
            i \in ImagePaths}

MailRuns == AuthFamily \cup RecipientFamily \cup ImageFamily

\* no render is running
RenderIdle ==
    /\ variant = "json"
    /\ argv = <<>>
    /\ env = <<>>
    /\ doc = NoDoc
    /\ files = BaseFiles
    /\ pc = "done"
    /\ cfg = <<>>
    /\ content = <<>>
    /\ canvas = <<>>
    /\ fonts = <<>>
    /\ ops = <<>>
    /\ trace = <<>>
    /\ calls = <<>>
    /\ diag = <<>>
    /\ status = <<>>
    /\ out = <<>>
    /\ run = 1
    /\ first = <<>>

MailInit ==
    /\ RenderIdle
    /\ \E r \in MailRuns :
          /\ mprog = r.mprog
          /\ menv = r.menv
          /\ mfs = r.mfs
    /\ mpc = "main"
    /\ mq = <<>>
    /\ mcur = <<>>
    /\ mlog = <<>>
    /\ mstatus = <<>>

MailSpec == MailInit /\ [][MailNext]_vars


(***************************************************************************)
(* Properties.                                                              *)
(***************************************************************************)
\* the draw calls a recorded call made on the canvas
OpsOf(c) == SubSeq(ops, c.at + 1, c.at + c.n)

DividerCalls == {i \in 1..Len(calls) : calls[i].fn = "draw_divider_pair"}
TextCalls == {i \in 1..Len(calls) : calls[i].fn = "draw_centered_multiline"}

\* the draw calls of one rule of the call c at height y: the left and the
\* right segment in c's colour and thickness, reaching from half of c's
\* width to c's gap, and the ornament in c's colour
IsRule(c, seg, y) ==
    /\ Len(seg) = 3
    /\ seg[1] = LineOp(c.center_x - (c.width \div 2), y,
                       c.center_x - c.hook_gap, y, c.color, c.thickness)
    /\ seg[2] = LineOp(c.center_x + c.hook_gap, y,
                       c.center_x + (c.width \div 2), y, c.color, c.thickness)
    /\ seg[3].op = "text"
    /\ seg[3].text \in {c.hook_char, Bullet}
    /\ seg[3].fill = c.color
    /\ seg[3].font = c.hook_font

\* the style main hands to the divider pair of a step
StyleOf(step) ==
    IF step = "small_divider"
    THEN [width |-> cfg.SMALL_DIVIDER_WIDTH, color |-> cfg.SMALL_DIVIDER_COLOR,
          thickness |-> cfg.SMALL_DIVIDER_THICKNESS,
          hook_char |-> cfg.SMALL_DIVIDER_HOOK_CHAR,
          hook_gap |-> cfg.SMALL_DIVIDER_HOOK_GAP]
    ELSE [width |-> cfg.LINE_WIDTH, color |-> cfg.LINE_COLOR,
          thickness |-> cfg.LINE_THICKNESS, hook_char |-> cfg.HOOK_CHAR,
          hook_gap |-> cfg.HOOK_GAP]

\* C1: a divider pair with both Ys absent draws no rule, with only the first
\* present exactly one rule at line_1_y, with both present exactly two rules
\* at line_1_y and line_2_y; every rule has the width, colour, thickness,
\* glyph and gap of its own call, which are the small-divider settings for
\* the small pair and the global settings for the details and message pairs.
C1_DividerPairRules ==
    \A i \in DividerCalls :
        LET c == calls[i]
            seg == OpsOf(c)
            st == StyleOf(c.step)
        IN  /\ c.width = st.width /\ c.color = st.color
            /\ c.thickness = st.thickness /\ c.hook_char = st.hook_char
            /\ c.hook_gap = st.hook_gap
            /\ (c.line_1_y = <<>> /\ c.line_2_y = <<>>) => seg = <<>>
            /\ (c.line_1_y # <<>> /\ c.line_2_y = <<>>) =>
                  IsRule(c, seg, c.line_1_y[1])
            /\ (c.line_1_y # <<>> /\ c.line_2_y # <<>>) =>
                  /\ Len(seg) = 6
                  /\ IsRule(c, SubSeq(seg, 1, 3), c.line_1_y[1])
                  /\ IsRule(c, SubSeq(seg, 4, 6), c.line_2_y[1])

\* a finished run whose small pair drew two rules (at 0 and 5), whose
\* details pair drew one and whose message pair drew none
C1_Witness ==
    /\ status = <<0>>
    /\ \E i, j, k \in DividerCalls :
          /\ calls[i].step = "small_divider" /\ calls[i].n = 6
          /\ calls[i].line_1_y = <<0>> /\ calls[i].line_2_y = <<5>>
          /\ calls[j].step = "details_divider" /\ calls[j].n = 3
          /\ calls[j].line_2_y = <<>>
          /\ calls[k].step = "message_divider" /\ calls[k].n = 0
          /\ calls[i].width # calls[j].width

\* C2: a divider pair whose first Y is absent draws nothing, whatever the
\* second Y is.
C2_FirstAbsentSuppressesPair ==
    \A i \in DividerCalls : calls[i].line_1_y = <<>> => calls[i].n = 0

InTrace(step) == \E i \in 1..Len(trace) : trace[i] = step

\* v is num / 100 rounded to the nearest integer, a tie going to the even one
IsRounded(v, num) ==
    LET d == IF 100 * v >= num THEN 100 * v - num ELSE num - 100 * v
    IN  d <= 50 /\ (d = 50 => v % 2 = 0)

IsA4(w, h, dpi) == IsRounded(w, 827 * dpi) /\ IsRounded(h, 1169 * dpi)

\* C3: once ensure_a4 has run the canvas is round(8.27 * DPI) wide and
\* round(11.69 * DPI) high, whatever the size of the template; a template
\* of that size is not resampled and any other is resampled once; the
\* canvas keeps that size in every later state, and the image written has it.
C3_CanvasIsA4 ==
    InTrace("resize") =>
        LET t == files.images[cfg.TEMPLATE]
        IN  /\ IsA4(canvas[1].w, canvas[1].h, cfg.DPI)
            /\ canvas[1].resampled = IF IsA4(t.w, t.h, cfg.DPI) THEN 0 ELSE 1
            /\ \A p \in DOMAIN out :
                  out[p].w = canvas[1].w /\ out[p].h = canvas[1].h

\* a finished run at DPI 50 (8.27 * 50 = 413.5 rounds to 414, 11.69 * 50 =
\* 584.5 to 584) whose 414 x 584 template was passed through unresampled
C3_Witness ==
    /\ status = <<0>>
    /\ cfg.DPI = 50
    /\ files.images[cfg.TEMPLATE].w = 414 /\ files.images[cfg.TEMPLATE].h = 584
    /\ canvas = <<[w |-> 414, h |-> 584, resampled |-> 0]>>
    /\ \E p \in DOMAIN out : out[p].w = 414 /\ out[p].h = 584

\* the composition steps in the order the specification gives them
StepOrder ==
    <<"load_template", "resize", "fonts", "intro", "title", "small_divider",
      "details", "details_divider", "message", "message_divider", "sign",
      "rsvp", "write">>

StepIndex(step) == CHOOSE i \in 1..Len(StepOrder) : StepOrder[i] = step

\* C4: the steps a render executes occur in the fixed order, none twice and
\* none before an earlier one; template, resize and fonts come first; a
\* successful render ends with the one write, which holds every draw call,
\* and has executed the three divider pair steps.
C4_StepOrder ==
    /\ \A i \in 1..Len(trace) : \E k \in 1..Len(StepOrder) : StepOrder[k] = trace[i]
    /\ \A i, j \in 1..Len(trace) :
          i < j => StepIndex(trace[i]) < StepIndex(trace[j])
    /\ \A i \in 1..Len(trace) : i <= 3 => trace[i] = StepOrder[i]
    /\ InTrace("write") <=> status = <<0>>
    /\ status = <<0>> =>
          /\ trace[Len(trace)] = "write"
          /\ DOMAIN out = {cfg.OUTPUT}
          /\ out[cfg.OUTPUT].ops = ops
          /\ InTrace("small_divider") /\ InTrace("details_divider")
          /\ InTrace("message_divider")
    /\ status # <<0>> => DOMAIN out = {}

\* a finished run of the JSON-driven variant that executed all thirteen steps
C4_Witness ==
    variant = "json" /\ status = <<0>> /\ trace = StepOrder /\ Len(ops) > 6

\* the text of a content field as the run was given it: the document's
\* string (null and a missing field count as empty) or the environment's
FieldText(k) ==
    IF variant = "json"
    THEN IF k \in DOMAIN doc.fields /\ doc.fields[k].t = "str"
         THEN doc.fields[k].s ELSE <<>>
    ELSE IF k \in DOMAIN env THEN env[k] ELSE <<>>

\* the fields that make up the text block of a step
BlockFields(step) ==
    CASE step = "intro" -> <<"INTRO_TEXT">>
      [] step = "title" -> <<"TITLE_LINE_1", "TITLE_LINE_2">>
      [] step = "details" -> <<"DETAIL_LINE_1", "DETAIL_LINE_2", "DETAIL_LINE_3">>
      [] step = "message" -> <<"MESSAGE_LINE_1", "MESSAGE_LINE_2">>
      [] step = "sign" -> <<"SIGN_LINE_1", "SIGN_LINE_2">>
      [] step = "rsvp" -> <<"RSVP_TEXT">>

AllFieldsEmpty(step) ==
    \A i \in 1..Len(BlockFields(step)) : FieldText(BlockFields(step)[i]) = <<>>

\* every field of the block is empty or holds line breaks only
OnlyLineBreaks(step) ==
    \A i \in 1..Len(BlockFields(step)) :
        \A j \in 1..Len(FieldText(BlockFields(step)[i])) :
            FieldText(BlockFields(step)[i])[j] = NL

OptionalBlocks == {"intro", "details", "message", "sign", "rsvp"}
TextBlocks == OptionalBlocks \cup {"title"}

\* in the environment-only variant every text block is drawn on every
\* render, and a block whose fields are all empty draws nothing and moves
\* the cursor by one blank line (font size plus spacing) per field
EnvAlwaysDraws ==
    (variant = "env" /\ status = <<0>>) =>
        \A b \in TextBlocks :
            /\ InTrace(b)
            /\ AllFieldsEmpty(b) =>
                  \E i \in TextCalls :
                      /\ calls[i].step = b
                      /\ calls[i].n = 0
                      /\ calls[i].ret = calls[i].top_y + Len(BlockFields(b))
                            * (calls[i].font.size + calls[i].line_spacing_px)

\* C5 as claimed: in the JSON-driven variant each of the intro, details,
\* message, signature and RSVP steps is skipped when all its fields are
\* empty and executed otherwise; in the environment-only variant every
\* text step executes, an empty field being a blank line that advances the
\* cursor.
C5_SkippedIffAllFieldsEmpty ==
    /\ (variant = "json" /\ status = <<0>>) =>
          \A b \in OptionalBlocks : InTrace(b) <=> ~AllFieldsEmpty(b)
    /\ EnvAlwaysDraws

\* C5 as amended: in the JSON-driven variant a one-field block (intro,
\* RSVP) is skipped exactly when its field is empty, and a block of several
\* fields (details, message, signature) exactly when every field is empty
\* or holds line breaks only, which is when the joined text is empty once
\* its leading and trailing line breaks are stripped; the environment-only
\* variant is as claimed.
C5_SkippedIffTextEmpty ==
    /\ (variant = "json" /\ status = <<0>>) =>
          /\ \A b \in {"intro", "rsvp"} : InTrace(b) <=> ~AllFieldsEmpty(b)
          /\ \A b \in {"details", "message", "sign"} :
                InTrace(b) <=> ~OnlyLineBreaks(b)
    /\ EnvAlwaysDraws

\* a finished JSON-driven render that skipped the details block although
\* DETAIL_LINE_1 is not empty: it holds one line break
C5_Witness ==
    /\ variant = "json" /\ status = <<0>>
    /\ FieldText("DETAIL_LINE_1") = <<NL>>
    /\ ~InTrace("details")
    /\ InTrace("intro") /\ InTrace("message")

\* the pieces of text.split(sep), by the positions of the separator: piece
\* k lies between the (k-1)th and the kth separator
Cuts(text, sep) == {i \in 1..Len(text) : text[i] = sep}
CutAt(text, sep, k) ==
    IF k = 0 THEN 0
    ELSE IF k > Cardinality(Cuts(text, sep)) THEN Len(text) + 1
    ELSE CHOOSE i \in Cuts(text, sep) :
            Cardinality({j \in Cuts(text, sep) : j <= i}) = k
Piece(text, sep, k) ==
    SubSeq(text, CutAt(text, sep, k - 1) + 1, CutAt(text, sep, k) - 1)

\* the segments of text.split("\n")
Breaks(text) == Cuts(text, NL)
Segment(text, k) == Piece(text, NL, k)
IsBlank(line) == \A i \in 1..Len(line) : line[i] \in Whitespace

\* the advance of the cursor for one segment
Advance(c, line) ==
    IF IsBlank(line) THEN c.font.size + c.line_spacing_px
    ELSE TextBBox(line, c.font).h + c.line_spacing_px

\* the cursor before segment k of the call c
RECURSIVE CursorAt(_, _)
CursorAt(c, k) ==
    IF k = 1 THEN c.top_y
    ELSE CursorAt(c, k - 1) + Advance(c, Segment(c.text, k - 1))

\* C6: draw_centered_multiline advances the cursor once per segment of
\* text.split("\n"), empty segments included: a blank segment draws nothing
\* and advances by the font size plus the spacing, any other segment is
\* drawn once, centred, at the current cursor and advances by its box
\* height plus the spacing; the value returned is top_y plus all advances.
C6_CursorPerSegment ==
    \A i \in TextCalls :
        LET c == calls[i]
            nseg == Cardinality(Breaks(c.text)) + 1
            inked == {k \in 1..nseg : ~IsBlank(Segment(c.text, k))}
            seg == OpsOf(c)
        IN  /\ c.ret = CursorAt(c, nseg + 1)
            /\ Len(seg) = Cardinality(inked)
            /\ \A k \in inked :
                  LET line == Segment(c.text, k)
                      pos == Cardinality({j \in inked : j <= k})
                  IN  seg[pos] = TextOp(
                          c.center_x - (TextBBox(line, c.font).w \div 2),
                          CursorAt(c, k), line, c.font, cfg.TEXT_COLOR)

\* a call on "a\n\nT": the empty middle segment draws nothing and moves
\* the cursor, so the third segment is drawn two advances below the first
C6_Witness ==
    \E i \in TextCalls :
        /\ calls[i].text = <<"a", NL, NL, "T">>
        /\ calls[i].n = 2
        /\ OpsOf(calls[i])[2].y =
              calls[i].top_y + (calls[i].font.size \div 2)
              + calls[i].font.size + 2 * calls[i].line_spacing_px
        /\ calls[i].ret = OpsOf(calls[i])[2].y
              + ((3 * calls[i].font.size) \div 4) + calls[i].line_spacing_px

RECURSIVE Pow10(_)
Pow10(k) == IF k = 0 THEN 1 ELSE 10 * Pow10(k - 1)

\* the number a string of digits denotes: digit k counts 10^(length - k)
RECURSIVE PlaceSum(_, _)
PlaceSum(d, k) ==
    IF k > Len(d) THEN 0
    ELSE DigitVal(d[k]) * Pow10(Len(d) - k) + PlaceSum(d, k + 1)

\* s is a decimal text of n: blanks, an optional sign, digits, blanks
IsIntText(s, n) ==
    \E i, j \in 1..Len(s) :
        /\ i <= j
        /\ \A k \in 1..Len(s) : (k < i \/ k > j) => s[k] \in Whitespace
        /\ LET signed == s[i] \in {"-", "+"}
               d == SubSeq(s, IF signed THEN i + 1 ELSE i, j)
           IN  /\ d # <<>>
               /\ \A k \in 1..Len(d) : d[k] \in Digits
               /\ n = IF s[i] = "-" THEN 0 - PlaceSum(d, 1) ELSE PlaceSum(d, 1)

\* the setting is unset or blank
IsUnsetOrBlank(key) == key \notin DOMAIN env \/ IsBlank(env[key])

\* the two Y settings of the divider pair of a step
YKeys(step) ==
    CASE step = "small_divider" ->
           <<"SMALL_DIVIDER_LINE_1_Y", "SMALL_DIVIDER_LINE_2_Y">>
      [] step = "details_divider" ->
           <<"DETAILS_DIVIDER_LINE_1_Y", "DETAILS_DIVIDER_LINE_2_Y">>
      [] step = "message_divider" ->
           <<"MESSAGE_DIVIDER_LINE_1_Y", "MESSAGE_DIVIDER_LINE_2_Y">>

DividerSteps == {"small_divider", "details_divider", "message_divider"}

DefaultColor == <<"1", "8", "0", ",", "1", "8", "0", ",", "1", "8", "0">>
RawColor(key) == IF key \in DOMAIN env THEN env[key] ELSE DefaultColor
ColorKeys == {"LINE_COLOR", "SMALL_DIVIDER_COLOR"}

\* the first three comma-separated components of the raw value are the
\* integers r, g, b of the colour, whose fourth entry is 255
FirstThreeAreRGB(key) ==
    /\ Cardinality(Cuts(RawColor(key), ",")) >= 2
    /\ Len(cfg[key]) = 4
    /\ \A i \in 1..3 : IsIntText(Piece(RawColor(key), ",", i), cfg[key][i])
    /\ cfg[key][4] = 255

\* C8 as claimed: a run gets past the configuration only with colour values
\* of exactly three comma-separated integers, which give (r, g, b, 255);
\* every other value, one of more than three components included, fails.
C8_ExactlyThreeIntegers ==
    cfg # <<>> =>
        \A key \in ColorKeys :
            /\ Cardinality(Cuts(RawColor(key), ",")) = 2
            /\ FirstThreeAreRGB(key)

\* C8 as amended: env_color accepts a comma-separated value whose first
\* three components are integers and returns (r, g, b, 255) from them,
\* ignoring any further component; a value with fewer than three
\* components or with a non-integer among the first three fails with a
\* parse error and yields neither a colour nor the default.
C8_FirstThreeIntegers ==
    cfg # <<>> => \A key \in ColorKeys : FirstThreeAreRGB(key)

\* a finished run with LINE_COLOR="7,2 ,7,x": the fourth component is
\* ignored and the details rule is drawn in (7, 2, 7, 255)
C8_Witness ==
    /\ status = <<0>>
    /\ "LINE_COLOR" \in DOMAIN env
    /\ env["LINE_COLOR"] = <<"7", ",", "2", SP, ",", "7", ",", "x">>
    /\ cfg.LINE_COLOR = <<7, 2, 7, 255>>
    /\ \E i \in DividerCalls :
          /\ calls[i].step = "details_divider"
          /\ calls[i].n = 3
          /\ OpsOf(calls[i])[1].fill = <<7, 2, 7, 255>>

\* C9: every style attribute of the small divider whose override is unset
\* is the global value of that attribute.
C9_SmallFallsBackToGlobal ==
    \A i \in DividerCalls :
        calls[i].step = "small_divider" =>
            /\ "SMALL_DIVIDER_WIDTH" \notin DOMAIN env =>
                  calls[i].width = cfg.LINE_WIDTH
            /\ "SMALL_DIVIDER_THICKNESS" \notin DOMAIN env =>
                  calls[i].thickness = cfg.LINE_THICKNESS
            /\ "SMALL_DIVIDER_COLOR" \notin DOMAIN env =>
                  calls[i].color = cfg.LINE_COLOR
            /\ "SMALL_DIVIDER_HOOK_CHAR" \notin DOMAIN env =>
                  calls[i].hook_char = cfg.HOOK_CHAR
            /\ "SMALL_DIVIDER_HOOK_GAP" \notin DOMAIN env =>
                  calls[i].hook_gap = cfg.HOOK_GAP

\* the hook font cannot rasterize the glyph, or probing it fails
Unsupported(glyph) == glyph \in files.noglyphs \cup files.badglyphs

\* C10: the ornament of every rule is the fallback bullet when the probe of
\* the requested glyph gives an empty mask or fails, and the requested
\* glyph unchanged when the probe succeeds; a glyph that cannot be probed
\* never ends the run: no run fails once its fonts are loaded.
C10_GlyphFallback ==
    /\ \A i \in DividerCalls :
          LET c == calls[i]
          IN  \A k \in 1..c.n :
                 OpsOf(c)[k].op = "text" =>
                    OpsOf(c)[k].text =
                       IF Unsupported(c.hook_char) THEN Bullet ELSE c.hook_char
    /\ InTrace("fonts") => status # <<1>>

\* a finished run in which probing the small divider's glyph raised and
\* probing the global glyph gave an empty mask: both ornaments are bullets
C10_Witness ==
    /\ status = <<0>>
    /\ \E i, j \in DividerCalls :
          /\ calls[i].hook_char \in files.badglyphs
          /\ calls[i].n = 3 /\ OpsOf(calls[i])[3].text = Bullet
          /\ calls[j].hook_char \in files.noglyphs
          /\ calls[j].n = 3 /\ OpsOf(calls[j])[3].text = Bullet

(***************************************************************************)
(* Error handling of the renderer.                                          *)
(***************************************************************************)
\* the document path argument is missing
NoDocumentArg == Len(argv) < 2

\* TEMPLATE_IMAGE is unset or empty, or names no existing file
NoTemplate ==
    \/ "TEMPLATE_IMAGE" \notin DOMAIN env
    \/ env["TEMPLATE_IMAGE"] = <<>>
    \/ env["TEMPLATE_IMAGE"] \notin DOMAIN files.images

\* C11: in the JSON-driven variant a missing document argument, or a
\* template path that is unset or names no file, ends main with a
\* diagnostic and status 2 before the template is opened, anything is
\* drawn or any file is written; status 0 is returned only after the
\* output image has been written.
C11_UsageAndTemplateErrors ==
    variant = "json" =>
       /\ (NoDocumentArg \/ NoTemplate) =>
             /\ pc \in {"start", "config", "done"}
             /\ canvas = <<>> /\ ops = <<>> /\ calls = <<>> /\ out = <<>>
             /\ "load_template" \notin {trace[i] : i \in 1..Len(trace)}
             /\ pc = "done" =>
                   /\ status = <<2>>
                   /\ diag = <<IF NoDocumentArg THEN "usage"
                               ELSE "template_error">>
       /\ status = <<0>> =>
             /\ trace # <<>> /\ trace[Len(trace)] = "write"
             /\ cfg.OUTPUT \in DOMAIN out
             /\ out[cfg.OUTPUT].ops = ops

C11_Witness ==
    /\ variant = "json" /\ pc = "done"
    /\ ~NoDocumentArg /\ NoTemplate
    /\ "TEMPLATE_IMAGE" \in DOMAIN env /\ env["TEMPLATE_IMAGE"] # <<>>
    /\ status = <<2>>


\* s reads as an integer: blanks, an optional sign, digits, blanks
IntSyntax(s) ==
    \E i, j \in 1..Len(s) :
        /\ i <= j
        /\ \A k \in 1..Len(s) : (k < i \/ k > j) => s[k] \in Whitespace
        /\ LET d == SubSeq(s, IF s[i] \in {"-", "+"} THEN i + 1 ELSE i, j)
           IN  d # <<>> /\ \A k \in 1..Len(d) : d[k] \in Digits

\* the integer settings, required and optional
IntKeys ==
    {"DPI", "TITLE_SIZE", "BODY_SIZE", "SMALL_SIZE", "HOOK_SIZE", "RSVP_SIZE",
     "Y_INTRO", "Y_TITLE", "Y_DETAILS", "Y_MESSAGE", "Y_SIGN", "Y_RSVP",
     "LINE_WIDTH", "LINE_THICKNESS", "HOOK_GAP", "SMALL_DIVIDER_WIDTH",
     "SMALL_DIVIDER_THICKNESS", "SMALL_DIVIDER_HOOK_GAP",
     "SMALL_DIVIDER_LINE_1_Y", "SMALL_DIVIDER_LINE_2_Y",
     "DETAILS_DIVIDER_LINE_1_Y", "DETAILS_DIVIDER_LINE_2_Y",
     "MESSAGE_DIVIDER_LINE_1_Y", "MESSAGE_DIVIDER_LINE_2_Y"}

\* a size or position that is set, not blank, and no integer
NonIntegerSetting ==
    \E k \in IntKeys \cap DOMAIN env : ~IsBlank(env[k]) /\ ~IntSyntax(env[k])

\* a colour with fewer than three components or with a non-integer among
\* its first three
MalformedColor(key) ==
    \/ Cardinality(Cuts(RawColor(key), ",")) < 2
    \/ \E i \in 1..3 : ~IntSyntax(Piece(RawColor(key), ",", i))

ConfigError == NonIntegerSetting \/ \E key \in ColorKeys : MalformedColor(key)

\* the template is missing or is no image
ResourceError ==
    NoTemplate \/ ~files.images[env["TEMPLATE_IMAGE"]].decodable

\* the document is missing, is no JSON object, or holds a text field that
\* is neither a string nor null
ContentError ==
    /\ variant = "json"
    /\ ~NoDocumentArg
    /\ \/ doc.kind # "object"
       \/ \E i \in 1..Len(ContentKeys) :
             /\ ContentKeys[i] \in DOMAIN doc.fields
             /\ doc.fields[ContentKeys[i]].t \notin {"str", "null"}

\* C12: a run with a configuration error, a resource error or a content
\* error ends with a non-zero status, having drawn nothing and written no
\* file; and whatever makes a run end with a non-zero status, it has drawn
\* nothing and written no file.
C12_ErrorsAbortBeforeDrawing ==
    /\ (ConfigError \/ ResourceError \/ ContentError) =>
          /\ ops = <<>> /\ calls = <<>> /\ out = <<>>
          /\ pc \notin {"intro", "title", "small_divider", "details",
                        "details_divider", "message", "message_divider",
                        "sign", "rsvp", "save"}
          /\ pc = "done" => status \in {<<1>>, <<2>>}
    /\ (pc = "done" /\ status # <<0>>) =>
          ops = <<>> /\ calls = <<>> /\ out = <<>>

\* a run ended by TITLE_SIZE=x with everything else in order
C12_Witness ==
    /\ pc = "done" /\ status = <<1>>
    /\ "TITLE_SIZE" \in DOMAIN env /\ env["TITLE_SIZE"] = <<"x">>
    /\ ~ResourceError /\ ~ContentError
    /\ ops = <<>> /\ out = <<>>


\* the text fields of the document
ContentKeySet == {ContentKeys[i] : i \in 1..Len(ContentKeys)}

\* the document holds the text field k with a value of one of the types ts
HoldsTypeOf(k, ts) == k \in DOMAIN doc.fields /\ doc.fields[k].t \in ts

\* the text composed from the document with every field that is missing or
\* no string taken as empty
TextWithDefaults ==
    JsonContent([k \in ContentKeySet |->
                    IF HoldsTypeOf(k, {"str"}) THEN doc.fields[k].s ELSE <<>>])

\* the run went past the reading of the document
PastContent == pc \notin {"start", "config", "content", "done"}

\* the document of the run is a JSON object that main reads
ReadsDocument ==
    variant = "json" /\ doc.kind = "object" /\ ~NoDocumentArg

\* C13 as claimed: a missing text field is the empty string, and a field
\* holding a number, a boolean, a list, an object or null ends the render
\* with nothing written.
C13_NonStringIsFatal ==
    ReadsDocument =>
        /\ content # <<>> => content = TextWithDefaults
        /\ (\E k \in ContentKeySet :
               HoldsTypeOf(k, {"num", "bool", "list", "dict", "null"})) =>
              /\ ~PastContent /\ content = <<>> /\ out = <<>>
              /\ pc = "done" => status # <<0>>

\* C13 as amended: a text field that is missing from the document or null
\* is the empty string, and a field holding a number, a boolean, a list or
\* an object ends the render with nothing written.
C13_MissingOrNullIsEmpty ==
    ReadsDocument =>
        /\ content # <<>> => content = TextWithDefaults
        /\ (\E k \in ContentKeySet :
               HoldsTypeOf(k, {"num", "bool", "list", "dict"})) =>
              /\ ~PastContent /\ content = <<>> /\ out = <<>>
              /\ pc = "done" => status # <<0>>

\* a finished render of a document whose INTRO_TEXT is null and whose
\* DETAIL_LINE_2 is missing: both were taken as empty
C13_Witness ==
    /\ ReadsDocument /\ status = <<0>>
    /\ HoldsTypeOf("INTRO_TEXT", {"null"})
    /\ "DETAIL_LINE_2" \notin DOMAIN doc.fields
    /\ content.INTRO = <<>>
    /\ content.DETAILS = doc.fields["DETAIL_LINE_1"].s
    /\ out # <<>>


\* the font files and sizes main hands to load_font, in call order
FontRequests ==
    <<[n |-> "title", key |-> "FONT_TITLE", size |-> cfg.TITLE_SIZE],
      [n |-> "body", key |-> "FONT_BODY", size |-> cfg.BODY_SIZE],
      [n |-> "small", key |-> "FONT_BODY", size |-> cfg.SMALL_SIZE],
      [n |-> "hook", key |-> "FONT_HOOK", size |-> cfg.HOOK_SIZE],
      [n |-> "rsvp", key |-> "FONT_BODY", size |-> cfg.RSVP_SIZE]>>

\* the font file of a request: FONT_HOOK falls back to FONT_BODY, and an
\* unset path is the empty string
FontFile(q) ==
    IF q.key \in DOMAIN env THEN env[q.key]
    ELSE IF q.key = "FONT_HOOK" /\ "FONT_BODY" \in DOMAIN env
    THEN env["FONT_BODY"]
    ELSE <<>>

\* ImageFont.truetype cannot load the request
Unloadable(q) == FontFile(q) \notin files.fontfiles \/ q.size < 1

\* C14: every font that cannot be loaded is replaced by the built-in font
\* with one warning each, a loaded font is the one requested, and a run
\* that has loaded its fonts never fails: it ends with the output written
\* and status 0.
C14_FontFallback ==
    fonts # <<>> =>
        /\ \A i \in 1..Len(FontRequests) :
              LET q == FontRequests[i]
              IN  IF Unloadable(q) THEN fonts[q.n] = BuiltinFont
                  ELSE fonts[q.n] = [path |-> FontFile(q), size |-> q.size,
                                     builtin |-> FALSE]
        /\ Cardinality({i \in 1..Len(diag) : diag[i] = "font_warn"})
              = Cardinality({i \in 1..Len(FontRequests) :
                                Unloadable(FontRequests[i])})
        /\ pc = "done" =>
              /\ status = <<0>>
              /\ trace[Len(trace)] = "write"
              /\ \A b \in {"small_divider", "details_divider",
                           "message_divider"} : InTrace(b)
              /\ cfg.OUTPUT \in DOMAIN out

\* a finished render in which no font file could be loaded
C14_Witness ==
    /\ pc = "done" /\ status = <<0>>
    /\ \A i \in 1..Len(FontRequests) : Unloadable(FontRequests[i])
    /\ fonts.title = BuiltinFont /\ fonts.hook = BuiltinFont
    /\ Len(ops) > 0
    /\ \A i \in 1..Len(ops) : ops[i].op = "text" => ops[i].font = BuiltinFont
    /\ cfg.OUTPUT \in DOMAIN out


(***************************************************************************)
(* Determinism and the two variants.                                        *)
(***************************************************************************)
\* a is an initial part of b
IsPrefix(a, b) == Len(a) <= Len(b) /\ a = SubSeq(b, 1, Len(a))

\* the second run is the program of the first, on the same inputs
SameProgramAgain == run = 2 /\ first[1].variant = variant

CallStarts == {i \in 1..Len(mlog) : mlog[i].ev = "send_raw"}

\* the last entry of the send_raw call that starts at i
CallEnd(i) ==
    IF \E j \in CallStarts : j > i
    THEN SetMin({j \in CallStarts : j > i}) - 1
    ELSE Len(mlog)

\* what gmail_service can do
AuthEvents ==
    {"use_cached", "refresh", "acquire", "write_token", "no_credentials",
     "load_failed", "refresh_failed", "acquire_failed"}

\* what gmail_service did in the call that starts at i
AuthOf(i) ==
    LET es == SelectSeq(SubSeq(mlog, i + 1, CallEnd(i)),
                        LAMBDA e : e.ev \in AuthEvents)
    IN  [k \in 1..Len(es) |-> es[k].ev]

\* the place in the log of what the send API answered in that call
SendOf(i) == i + Len(AuthOf(i)) + 1

\* the cached authorization is valid
CacheValid(t) == t.kind = "creds" /\ t.has_token /\ ~t.expired

\* the cached authorization is expired and has a refresh token
CacheRefreshable(t) ==
    t.kind = "creds" /\ ~CacheValid(t) /\ t.expired /\ t.refresh_token

\* authorization is acquired anew from credentials.json, or the call fails
\* because credentials.json is absent
Reacquired(i) ==
    IF mlog[i].credentials
    THEN AuthOf(i) \in {<<"acquire", "write_token">>, <<"acquire_failed">>}
    ELSE AuthOf(i) = <<"no_credentials">>

\* a message reaches the send API only as the next step after its own
\* send_raw call got authorization, token.json is written exactly after a
\* refresh or an acquisition, and a call that got no authorization ends the
\* sender without a send
SendOnlyAuthorized ==
    /\ \A j \in 1..Len(mlog) :
          /\ mlog[j].ev \in {"send", "send_failed"} =>
                /\ j > 2
                /\ mlog[j - 1].ev \in {"use_cached", "write_token"}
                /\ \E i \in CallStarts :
                      /\ SendOf(i) = j
                      /\ mlog[j].ev = "send" => mlog[i].to = mlog[j].msg.to
          /\ mlog[j].ev = "write_token" =>
                j > 1 /\ mlog[j - 1].ev \in {"refresh", "acquire"}
          /\ mlog[j].ev \in {"refresh", "acquire"} =>
                j < Len(mlog) /\ mlog[j + 1].ev = "write_token"
          /\ mlog[j].ev \in {"no_credentials", "load_failed", "refresh_failed",
                             "acquire_failed"} =>
                j = Len(mlog) /\ mpc = "done" /\ mstatus = <<1>>
    /\ \A i \in CallStarts :
          (i = SetMax(CallStarts) /\ AuthOf(i) = <<"use_cached">>) =>
              mfs.token = mlog[i].seen

\* C16 as claimed: valid cached authorization is used as it is, expired
\* authorization with a refresh token is refreshed, and in every other case
\* authorization is acquired anew from credentials.json or, that file being
\* absent, the call fails unsent.
C16_AuthorizeThenSend ==
    /\ SendOnlyAuthorized
    /\ \A i \in CallStarts :
          LET t == mlog[i].seen
          IN  IF CacheValid(t) THEN AuthOf(i) = <<"use_cached">>
              ELSE IF CacheRefreshable(t)
              THEN AuthOf(i) \in {<<"refresh", "write_token">>,
                                  <<"refresh_failed">>}
              ELSE Reacquired(i)

\* C16 as amended: as claimed, but a token.json that cannot be read as
\* authorization makes the call fail unsent: nothing is acquired anew.
C16_AuthorizeOrFail ==
    /\ SendOnlyAuthorized
    /\ \A i \in CallStarts :
          LET t == mlog[i].seen
          IN  IF t.kind = "corrupt" THEN AuthOf(i) = <<"load_failed">>
              ELSE IF CacheValid(t) THEN AuthOf(i) = <<"use_cached">>
              ELSE IF CacheRefreshable(t)
              THEN AuthOf(i) \in {<<"refresh", "write_token">>,
                                  <<"refresh_failed">>}
              ELSE Reacquired(i)

\* a sender that refreshed its expired authorization for the first message
\* and used the rewritten token.json as it was for the second
C16_Witness ==
    /\ mpc = "done" /\ mstatus = <<0>>
    /\ Cardinality(CallStarts) = 2
    /\ \E i, j \in CallStarts :
          /\ i < j
          /\ CacheRefreshable(mlog[i].seen)
          /\ AuthOf(i) = <<"refresh", "write_token">>
          /\ mlog[SendOf(i)].ev = "send"
          /\ CacheValid(mlog[j].seen)
          /\ AuthOf(j) = <<"use_cached">>
          /\ mlog[SendOf(j)].ev = "send"


\* the setting names at least one recipient: it holds a character that is
\* neither a separator nor a blank
HasRecipient(key) ==
    /\ key \in DOMAIN menv
    /\ \E i \in 1..Len(menv[key]) : menv[key][i] \notin {",", NL} \cup Whitespace

\* the image setting is set and not blank
HasImage(key) == key \in DOMAIN menv /\ ~IsBlank(menv[key])

\* the sender ended on the check named what
EndedOn(what) == mlog # <<>> /\ mlog[Len(mlog)].ev = what

\* C17: sendmail_image demands the image of a group only if that group has
\* recipients: it never ends on "IMAGE_PATH_1 is required" without church
\* recipients, nor on "IMAGE_PATH_2 is required" without home recipients.
C17_ImageRequiredOnlyIfSent ==
    mprog = "sendmail_image" =>
        /\ EndedOn("image_1_required") => HasRecipient("TO_CHURCH")
        /\ EndedOn("image_2_required") => HasRecipient("TO_HOME")


(***************************************************************************)
(* The geometry of a rule.                                                  *)
(***************************************************************************)
\* the x coordinates of the end points of a line
Ends(l) == {l.x1, l.x2}

\* the two segments of rule r (1 or 2) of the divider call c
RuleSegments(c, r) ==
    <<OpsOf(c)[3 * (r - 1) + 1], OpsOf(c)[3 * (r - 1) + 2]>>

\* the segment lies outside the open interval (lo, hi)
Outside(l, lo, hi) == SetMax(Ends(l)) <= lo \/ SetMin(Ends(l)) >= hi

\* C18: the two segments of every rule span exactly the width W from the
\* leftmost to the rightmost end point, mirror each other about cx, and
\* leave the gap (cx - hook_gap, cx + hook_gap) free.
C18_RuleGeometry ==
    \A i \in DividerCalls :
        LET c == calls[i]
        IN  \A r \in 1..(c.n \div 3) :
               LET seg == RuleSegments(c, r)
                   xs == Ends(seg[1]) \cup Ends(seg[2])
               IN  /\ SetMax(xs) - SetMin(xs) = c.width
                   /\ {2 * c.center_x - x : x \in Ends(seg[1])} = Ends(seg[2])
                   /\ \A k \in 1..2 :
                         Outside(seg[k], c.center_x - c.hook_gap,
                                 c.center_x + c.hook_gap)

(***************************************************************************)
(* The two variants on the same text.                                       *)
(***************************************************************************)
\* the environment-only script has run on the text and settings of a
\* finished render of the JSON-driven variant
OtherVariantDone ==
    /\ run = 2 /\ pc = "done"
    /\ first[1].variant = "json" /\ variant = "env"

\* no text block is wholly empty
NoBlockEmpty == \A b \in TextBlocks : ~AllFieldsEmpty(b)

\* the first field of every block of several fields is non-empty and does
\* not begin with a line break
FirstFieldsLead ==
    \A b \in {"title", "details", "message", "sign"} :
        /\ FieldText(BlockFields(b)[1]) # <<>>
        /\ Head(FieldText(BlockFields(b)[1])) # NL

\* C19 as claimed: on content of which no text block is wholly empty the
\* two variants make the same draw calls.
C19_SameDrawsUnlessEmpty ==
    (OtherVariantDone /\ NoBlockEmpty) =>
        /\ status = first[1].status
        /\ ops = first[1].ops

\* C19 as amended: the two variants make the same draw calls on content in
\* which the first field of each of title, details, message and signature
\* is non-empty and does not begin with a line break.
C19_SameDrawsIfFirstFieldsLead ==
    (OtherVariantDone /\ FirstFieldsLead) =>
        /\ status = first[1].status
        /\ ops = first[1].ops

\* both variants drew the same although the last detail line is missing:
\* the JSON-driven variant passed "T", the environment-only script "T\n\n"
C19_Witness ==
    /\ OtherVariantDone /\ FirstFieldsLead /\ status = <<0>>
    /\ Len(ops) > 3 /\ ops = first[1].ops
    /\ \E i \in TextCalls :
          /\ calls[i].step = "details"
          /\ calls[i].text = FieldText("DETAIL_LINE_1") \o <<NL, NL>>
          /\ \E j \in 1..Len(first[1].calls) :
                /\ first[1].calls[j].step = "details"
                /\ first[1].calls[j].text = FieldText("DETAIL_LINE_1")


\* the field holds no line break of its own
OneLine(k) == \A j \in 1..Len(FieldText(k)) : FieldText(k)[j] # NL

\* C20: the text handed to draw_centered_multiline for the message block
\* has exactly two line segments, MESSAGE_LINE_1 and MESSAGE_LINE_2, in
\* both variants, an empty field included (each field being one line).
C20_MessageIsTwoLines ==
    \A i \in TextCalls :
        (/\ calls[i].step = "message"
         /\ OneLine("MESSAGE_LINE_1") /\ OneLine("MESSAGE_LINE_2")) =>
            /\ Cardinality(Breaks(calls[i].text)) = 1
            /\ Segment(calls[i].text, 1) = FieldText("MESSAGE_LINE_1")
            /\ Segment(calls[i].text, 2) = FieldText("MESSAGE_LINE_2")


(***************************************************************************)
(* The sends of sendmail_image.                                             *)
(***************************************************************************)
\* the entries of a recipient setting, read character by character: a
\* comma or a line break ends an entry, an entry is trimmed, and an entry
\* that is then empty is dropped
EntryDone(acc, cur) == IF Strip(cur) = <<>> THEN acc ELSE Append(acc, Strip(cur))

RECURSIVE ScanEntries(_, _, _)
ScanEntries(v, cur, acc) ==
    IF v = <<>> THEN EntryDone(acc, cur)
    ELSE IF Head(v) \in {",", NL}
    THEN ScanEntries(Tail(v), <<>>, EntryDone(acc, cur))
    ELSE ScanEntries(Tail(v), Append(cur, Head(v)), acc)

Entries(key) == IF key \in DOMAIN menv THEN ScanEntries(menv[key], <<>>, <<>>) ELSE <<>>

\* the image setting of a group, trimmed
ImageOf(key) == IF key \in DOMAIN menv THEN Strip(menv[key]) ELSE <<>>

\* the messages the settings ask for: one for each entry of TO_CHURCH, in
\* order, then one for each entry of TO_HOME, in order
Asked ==
    [i \in 1..Len(Entries("TO_CHURCH")) |->
        [to |-> Entries("TO_CHURCH")[i], image_path |-> ImageOf("IMAGE_PATH_1"),
         label |-> "CHURCH", cids |-> <<"invite">>]]
    \o [i \in 1..Len(Entries("TO_HOME")) |->
        [to |-> Entries("TO_HOME")[i], image_path |-> ImageOf("IMAGE_PATH_2"),
         label |-> "HOME", cids |-> <<"invite">>]]

\* the messages the send API accepted, in the order of the calls
Accepted ==
    LET sends == SelectSeq(mlog, LAMBDA e : e.ev = "send")
    IN  [i \in 1..Len(sends) |-> sends[i].msg]

\* the places in the log of the calls of the send API, and of the failures
SendCalls == {j \in 1..Len(mlog) : mlog[j].ev \in {"send", "send_failed"}}
Failures ==
    {j \in 1..Len(mlog) :
        mlog[j].ev \in {"image_error", "send_failed", "no_credentials",
                        "load_failed", "refresh_failed", "acquire_failed"}}

\* the recipient of the k-th send_raw call
CallTo(k) ==
    LET starts == SelectSeq(mlog, LAMBDA e : e.ev = "send_raw")
    IN  starts[k].to

\* the accepted messages are the first of those asked for, each carrying
\* the one inline image "invite" of its group; the k-th send_raw call is
\* for the k-th entry, so that no entry is tried twice and none is passed
\* over; a failure is the last thing the sender does, and it ends with
\* status 1; a sender that ends with status 0 has sent all
OneSendPerEntry ==
    /\ IsPrefix(Accepted, Asked)
    /\ \A i \in 1..Len(Accepted) : Accepted[i].cids = <<"invite">>
    /\ Cardinality(CallStarts) <= Len(Asked)
    /\ \A k \in 1..Cardinality(CallStarts) : CallTo(k) = Asked[k].to
    /\ Cardinality(SendCalls) <= Cardinality(CallStarts)
    /\ Cardinality(CallStarts) <= Len(Accepted) + 1
    /\ \A j \in Failures : j = Len(mlog) /\ mpc = "done" /\ mstatus = <<1>>
    /\ (mpc = "done" /\ mstatus = <<0>>) => Accepted = Asked

\* the send calls made for the address a
CallsFor(a) == {k \in 1..Cardinality(CallStarts) : CallTo(k) = a}

\* C21 as claimed: in sendmail_image each recipient gets at most one send
\* call, the sends follow the lists with the church group first, each
\* message carries the one inline image "invite", and a failure stops the
\* run: no later recipient is sent to and nothing is retried.
C21_OneSendPerRecipient ==
    mprog = "sendmail_image" =>
        /\ OneSendPerEntry
        /\ \A k \in 1..Cardinality(CallStarts) :
              Cardinality(CallsFor(CallTo(k))) <= 1

\* C21 as amended: as claimed, with one send call at most for each entry of
\* the lists: an address that is listed twice, or in both groups, is sent
\* to once for each of its entries.
C21_OneSendPerEntry ==
    mprog = "sendmail_image" => OneSendPerEntry

\* the send API refused the second church message after accepting the
\* first: the sender ended there, with both home messages unsent
C21_Witness ==
    /\ mprog = "sendmail_image"
    /\ mpc = "done" /\ mstatus = <<1>>
    /\ EndedOn("send_failed")
    /\ Len(Accepted) = 1 /\ Accepted[1].label = "CHURCH"
    /\ Cardinality(CallStarts) = 2
    /\ Len(Asked) = 4 /\ Asked[3].label = "HOME"



====
